---- MODULE Spec2Model ----
(***************************************************************************)
(* Model of the babamul client library (boom-astro/babamul):               *)
(*   - numeric conversion primitives and photometry reconciliation         *)
(*     (raw_models.py),                                                    *)
(*   - light-curve combination of an alert, with its lazy backfill         *)
(*     (models.py, api.py),                                                *)
(*   - bulk cross-match attachment (models.py),                            *)
(*   - the lazy accessors of an alert: photometry, cutouts, cross-matches  *)
(*     (models.py),                                                        *)
(*   - the REST transport and the authentication state of the client       *)
(*     (api_client.py, api.py, config.py),                                 *)
(*   - the bulk cone search: validation, batching, fan-out (api.py).       *)
(*                                                                         *)
(* Conventions.  Python's None is the empty tuple and a present value x    *)
(* is the 1-tuple <<x>>, so that None, [] and a value never compare equal. *)
(* Fluxes are integers in the raw unit of the wire format (the call sites  *)
(* scale them by 1e-9); magnitudes are integers in tenths of a magnitude,  *)
(* with log10 taken at integer precision.                                  *)
(***************************************************************************)
EXTENDS Integers, Sequences, FiniteSets, TLC

VARIABLES
    raw,        \* the dict-shaped raw photometry record handed to reconciliation
    survey_zp,  \* the zero point handed to reconciliation
    out,        \* outcome of the last reconciliation: method, status, value
    alerts,     \* the alert objects (ZtfAlert / LsstAlert), a sequence
    server,     \* the object stored by the REST service for the alert of SpecPhot
    fetchCount, \* number of calls of api.get_photometry issued so far
    rets,       \* history of get_photometry calls: flag, status, returned list
    xmBefore,   \* the alerts as they were when add_cross_matches was called
    xmResp,     \* the answers of get_cross_matches_bulk, per survey
    xmStatus,   \* "idle", "returned" or "raised": how add_cross_matches ended
    lazyOp,     \* the last lazy accessor called in SpecLazy, and how it ended
    num,        \* the last call of a numeric primitive: arguments and result
    token,      \* APIClient._token
    env,        \* the environment variable BABAMUL_API_TOKEN
    closed,     \* whether APIClient.close has been called
    sent,       \* number of HTTP requests handed to httpx so far
    call,       \* the last transport call: arguments, response and outcome
    coneIn,     \* the arguments of the bulk cone search in progress
    conePc,     \* "idle", "running", "returned" or "raised"
    futures,    \* the submitted batches with the outcome of their request
    completed,  \* the futures already taken from as_completed, in order
    results,    \* the dict "results" of the bulk cone search
    avro,       \* the payload handed to deserialize_alert and how it ended
    cfg,        \* the arguments and environment of BabamulConfig.from_env
    thr,        \* the threads of SpecRace: position and local variables
    serial      \* whether the caller of SpecRace serializes the two calls

vars == <<raw, survey_zp, out, alerts, server, fetchCount, rets,
          xmBefore, xmResp, xmStatus, lazyOp, num, token, env, closed, sent,
          call, coneIn, conePc, futures, completed, results, avro, cfg,
          thr, serial>>

reconVars == <<raw, survey_zp, out>>
photVars  == <<server, fetchCount, rets>>
xmVars    == <<xmBefore, xmResp, xmStatus>>
lazyVars  == <<lazyOp>>
numVars   == <<num>>
apiVars   == <<token, env, closed, sent, call>>
coneVars  == <<coneIn, conePc, futures, completed, results>>
avroVars  == <<avro>>
cfgVars   == <<cfg>>
raceVars  == <<thr, serial>>
extraVars == <<avroVars, cfgVars, raceVars>>

(***************************************************************************)
(* Bounds of the model.                                                    *)
(***************************************************************************)
MaxFlux    == 6   \* raw psfFlux ranges over -MaxFlux..MaxFlux and None
MaxFluxErr == 2   \* raw psfFluxErr ranges over -1..MaxFluxErr and missing
MaxLen     == 3   \* total number of photometry records held by one alert
MaxCalls   == 2   \* get_photometry calls in one behaviour
MaxAlerts  == 3   \* length of the list handed to add_cross_matches

Jds       == {1, 2}
Bands     == {"g", "r"}          \* two of the six members of Band
Surveys   == {"ZTF", "LSST"}
ObjectIds == {"o1", "o2"}
XmValues  == {"xA", "xB"}        \* CrossMatches objects, opaque

(***************************************************************************)
(* Optional values.                                                        *)
(***************************************************************************)
None      == <<>>
Some(x)   == <<x>>
IsNone(o) == o = <<>>
Val(o)    == o[1]

Abs(x) == IF x < 0 THEN -x ELSE x

(***************************************************************************)
(* raw_models.py: zero points, in tenths of a magnitude.                   *)
(***************************************************************************)
LSST_ZP == 89
ZTF_ZP  == 239

RECURSIVE Log10Floor(_)
Log10Floor(n) == IF n < 10 THEN 0 ELSE 1 + Log10Floor(n \div 10)

\* A magnitude: +infinity, or a finite number of tenths of a magnitude.
Inf       == [inf |-> TRUE, v |-> 0]
Finite(v) == [inf |-> FALSE, v |-> v]

\* Mutant of flux2mag: only a zero flux yields the sentinel.
flux2magZeroOnly(flux, flux_err, zp) ==
    IF flux = 0
    THEN <<Inf, 0>>
    ELSE <<Finite(zp + 225 - 25 * Log10Floor(flux)),
           (1086 * flux_err) \div flux>>

\* flux2mag(flux, flux_err, zp), with flux and flux_err in units of 1e-9:
\* zp - 2.5 log10(flux * 1e-9) = zp + 22.5 - 2.5 log10(flux);
\* mag_err = 1.0857 * flux_err / flux, in thousandths.
flux2mag(flux, flux_err, zp) ==
    IF flux <= 0
    THEN <<Inf, 0>>
    ELSE <<Finite(zp + 225 - 25 * Log10Floor(flux)),
           (1086 * flux_err) \div flux>>

\* fluxerr2diffmaglim(flux_err, zp), flux_err in units of 1e-9.
fluxerr2diffmaglim(flux_err, zp) ==
    IF flux_err <= 0
    THEN Inf
    ELSE Finite(zp + 225 - 25 * Log10Floor(3 * flux_err))

(***************************************************************************)
(* raw_models.py: the raw variants and their validation.  A raw dict has   *)
(* the keys jd, psfFlux, psfFluxErr, band, ra, dec; psfFlux may be null,   *)
(* psfFluxErr is required and not nullable (None here: missing or null).   *)
(***************************************************************************)
RawDicts ==
    [jd : Jds,
     psfFlux : {None} \cup {Some(f) : f \in (-MaxFlux..MaxFlux) \cup {-100, 100}},
     psfFluxErr : {None} \cup {Some(e) : e \in (-1..MaxFluxErr) \cup {5}},
     band : Bands, ra : {10}, dec : {20}]

\* model_validate of AlertPhotometry, NonDetectionPhotometry, ForcedPhotometry
Validates(d) == ~IsNone(d.psfFluxErr)

\* A signal-to-noise ratio num/den (den > 0); 0 is 0/1.
Ratio(n, d) == [num |-> n, den |-> d]
RatioLt(r, k) == r.num < k * r.den

Ok(p)       == [status |-> "ok", value |-> Some(p)]
Raised(exc) == [status |-> exc, value |-> None]

Photometry(jd, magpsf, sigmapsf, isdiffpos, diffmaglim, psfFlux, psfFluxErr, band, zp, ra, dec, snr) ==
    [jd |-> jd, magpsf |-> magpsf, sigmapsf |-> sigmapsf,
     isdiffpos |-> isdiffpos, diffmaglim |-> diffmaglim, psfFlux |-> psfFlux,
     psfFluxErr |-> psfFluxErr, band |-> band, zp |-> zp, ra |-> ra,
     dec |-> dec, snr |-> snr]

\* Mutant of from_alert_photometry: an infinite magnitude is stored as null.
from_alert_photometry_nullinf(d, zp) ==
    IF ~Validates(d) THEN Raised("ValidationError")
    ELSE IF IsNone(d.psfFlux) THEN Raised("TypeError")
    ELSE
      LET flux == Val(d.psfFlux)
          err  == Val(d.psfFluxErr)
          m    == flux2mag(Abs(flux), err, zp)
          snr  == IF err > 0 THEN Ratio(Abs(flux), err) ELSE Ratio(0, 1)
      IN  Ok(Photometry(d.jd, IF m[1].inf THEN None ELSE Some(m[1]),
                        Some(m[2]), Some(flux > 0), None,
                        Some(flux), err, d.band, zp, Some(d.ra), Some(d.dec),
                        Some(snr)))

\* Mutant of from_alert_photometry: snr is taken from the signed flux.
from_alert_photometry_signed_snr(d, zp) ==
    IF ~Validates(d) THEN Raised("ValidationError")
    ELSE IF IsNone(d.psfFlux) THEN Raised("TypeError")
    ELSE
      LET flux == Val(d.psfFlux)
          err  == Val(d.psfFluxErr)
          m    == flux2mag(Abs(flux), err, zp)
          snr  == IF err > 0 THEN Ratio(flux, err) ELSE Ratio(0, 1)
      IN  Ok(Photometry(d.jd, Some(m[1]), Some(m[2]), Some(flux > 0), None,
                        Some(flux), err, d.band, zp, Some(d.ra), Some(d.dec),
                        Some(snr)))

\* Photometry.from_alert_photometry: abs(psfFlux * 1e-9) is evaluated first
\* and raises TypeError on a null psfFlux.
from_alert_photometry(d, zp) ==
    IF ~Validates(d) THEN Raised("ValidationError")
    ELSE IF IsNone(d.psfFlux) THEN Raised("TypeError")
    ELSE
      LET flux == Val(d.psfFlux)
          err  == Val(d.psfFluxErr)
          m    == flux2mag(Abs(flux), err, zp)
          snr  == IF err > 0 THEN Ratio(Abs(flux), err) ELSE Ratio(0, 1)
      IN  Ok(Photometry(d.jd, Some(m[1]), Some(m[2]), Some(flux > 0), None,
                        Some(flux), err, d.band, zp, Some(d.ra), Some(d.dec),
                        Some(snr)))

\* Photometry.from_non_detection_photometry
from_non_detection_photometry(d, zp) ==
    IF ~Validates(d) THEN Raised("ValidationError")
    ELSE
      LET err == Val(d.psfFluxErr)
      IN  Ok(Photometry(d.jd, None, None, None,
                        Some(fluxerr2diffmaglim(err, zp)), None, err, d.band,
                        zp, None, None, None))

\* Mutant of IsLimit: the boundary snr == 3 falls on the limit side.
IsLimitInclusive(snr) == snr.num <= 3 * snr.den

\* The branch of from_forced_photometry: snr < 3 is a limit.
IsLimit(snr) == RatioLt(snr, 3)

\* Photometry.from_forced_photometry: abs(psfFlux) is evaluated only when
\* psfFluxErr > 0, and raises TypeError on a null psfFlux.
from_forced_photometry(d, zp) ==
    IF ~Validates(d) THEN Raised("ValidationError")
    ELSE IF Val(d.psfFluxErr) > 0 /\ IsNone(d.psfFlux) THEN Raised("TypeError")
    ELSE
      LET err  == Val(d.psfFluxErr)
          snr  == IF err > 0 THEN Ratio(Abs(Val(d.psfFlux)), err)
                  ELSE Ratio(0, 1)
          m    == flux2mag(Abs(Val(d.psfFlux)), err, zp)
      IN  IF IsLimit(snr)
          THEN Ok(Photometry(d.jd, None, None, None,
                             Some(fluxerr2diffmaglim(err, zp)), d.psfFlux,
                             err, d.band, zp, None, None, Some(snr)))
          ELSE Ok(Photometry(d.jd, Some(m[1]), Some(m[2]), None, None,
                             d.psfFlux, err, d.band, zp, None, None,
                             Some(snr)))

(***************************************************************************)
(* Values of the variables a specification does not use.                   *)
(***************************************************************************)
NoServer == [prv_candidates |-> None, fp_hists |-> None,
             prv_nondetections |-> None]
NoResp   == [s \in Surveys |->
               [status |-> "notcalled", map |-> [o \in ObjectIds |-> None]]]
NoOut    == [method |-> "none", status |-> "pending", value |-> None]
NoRaw    == [jd |-> 1, psfFlux |-> None, psfFluxErr |-> None, band |-> "g",
             ra |-> 10, dec |-> 20]

ReconIdle == raw = NoRaw /\ survey_zp = ZTF_ZP /\ out = NoOut
PhotIdle  == server = NoServer /\ fetchCount = 0 /\ rets = <<>>
XmIdle    == xmBefore = <<>> /\ xmResp = NoResp /\ xmStatus = "idle"

NoLazyOp == [op |-> "none", i |-> 0, status |-> "none", fetched |-> FALSE]
NoNum    == [fn |-> "none", flux |-> 0, flux_err |-> 0, zp |-> ZTF_ZP,
             mag |-> Inf, mag_err |-> 0]
NoCall   == [fn |-> "none", arg |-> None, require_auth |-> FALSE,
             response |-> [status |-> 0,
                           body |-> [json |-> FALSE, object |-> FALSE,
                                     message |-> None, detail |-> None,
                                     access_token |-> None]],
             outcome |-> "ok", code |-> 0, message |-> "",
             returned |-> None, login_token |-> None]
NoConeIn == [fn |-> "none", n |-> 0, batch_size |-> 0, n_threads |-> 0,
             radius_arcsec |-> 0]

LazyIdle == lazyOp = NoLazyOp
NumIdle  == num = NoNum
ApiIdle  == /\ token = None /\ env = None /\ closed = FALSE /\ sent = 0
            /\ call = NoCall
ConeIdle == /\ coneIn = NoConeIn /\ conePc = "idle" /\ futures = <<>>
            /\ completed = <<>> /\ results = <<>>

NoAvro == [payload |-> [kind |-> "none", candid |-> "absent", objectId |-> "absent", candidate |-> "absent"], status |-> "idle", exc |-> ""]
NoCfg  == [fn |-> "none", username |-> <<>>, password |-> <<>>, server |-> <<>>, env_username |-> <<>>, env_password |-> <<>>, status |-> "idle", exc |-> "", value |-> [username |-> "", password |-> "", server |-> ""]]

AvroIdle  == avro = NoAvro
CfgIdle   == cfg = NoCfg
RaceIdle  == thr = <<>> /\ serial = FALSE
ExtraIdle == AvroIdle /\ CfgIdle /\ RaceIdle

(***************************************************************************)
(* SpecRecon: reconciliation of one raw record by one of the three         *)
(* class methods of Photometry.                                            *)
(***************************************************************************)
InitRecon ==
    /\ raw \in RawDicts
    /\ survey_zp \in {ZTF_ZP, LSST_ZP}
    /\ out = NoOut
    /\ alerts = <<>>
    /\ PhotIdle
    /\ XmIdle
    /\ LazyIdle /\ NumIdle /\ ApiIdle /\ ConeIdle /\ ExtraIdle

Reconcile(method, result) ==
    /\ out.status = "pending"
    /\ out' = [method |-> method, status |-> result.status,
               value |-> result.value]
    /\ UNCHANGED <<raw, survey_zp, alerts, photVars, xmVars>>
    /\ UNCHANGED <<lazyVars, numVars, apiVars, coneVars, extraVars>>

FromAlertPhotometry ==
    Reconcile("alert", from_alert_photometry(raw, survey_zp))

FromNonDetectionPhotometry ==
    Reconcile("non_detection", from_non_detection_photometry(raw, survey_zp))

FromForcedPhotometry ==
    Reconcile("forced", from_forced_photometry(raw, survey_zp))

NextRecon ==
    \/ FromAlertPhotometry
    \/ FromNonDetectionPhotometry
    \/ FromForcedPhotometry

SpecRecon == InitRecon /\ [][NextRecon]_vars

(***************************************************************************)
(* C6: a forced-photometry record is classified by its computed snr =      *)
(* |psfFlux| / psfFluxErr (0 when psfFluxErr <= 0): with snr >= 3, also    *)
(* exactly 3, the Photometry has magpsf and sigmapsf set and diffmaglim    *)
(* unset; with snr < 3 it has diffmaglim set and magpsf, sigmapsf unset.   *)
(***************************************************************************)
C6_ForcedClassifiedBySnr ==
    (out.method = "forced" /\ out.status = "ok") =>
        LET p   == Val(out.value)
            err == Val(raw.psfFluxErr)
            detected == err > 0 /\ Abs(Val(raw.psfFlux)) >= 3 * err
        IN  /\ p.snr = Some(IF err > 0
                            THEN [num |-> Abs(Val(raw.psfFlux)), den |-> err]
                            ELSE [num |-> 0, den |-> 1])
            /\ detected => /\ ~IsNone(p.magpsf)
                           /\ ~IsNone(p.sigmapsf)
                           /\ IsNone(p.diffmaglim)
            /\ ~detected => /\ ~IsNone(p.diffmaglim)
                            /\ IsNone(p.magpsf)
                            /\ IsNone(p.sigmapsf)

\* A forced record exactly at snr == 3 came out as a detection.
C6_Witness ==
    /\ out.method = "forced" /\ out.status = "ok"
    /\ Val(raw.psfFluxErr) = 2 /\ raw.psfFlux = Some(-6)
    /\ ~IsNone(Val(out.value).magpsf)
    /\ IsNone(Val(out.value).diffmaglim)

(***************************************************************************)
(* C7: every Photometry produced by one of the three reconciliation        *)
(* methods has exactly one of magpsf and diffmaglim present.               *)
(***************************************************************************)
C7_ExactlyOneOfMagAndLimit ==
    out.status = "ok" =>
        (IsNone(Val(out.value).magpsf) /= IsNone(Val(out.value).diffmaglim))

\* A detection record of zero flux: its magnitude is +infinity, and present.
C7_Witness ==
    /\ out.method = "alert" /\ out.status = "ok"
    /\ raw.psfFlux = Some(0)
    /\ Val(out.value).magpsf = Some(Inf)
    /\ IsNone(Val(out.value).diffmaglim)

(***************************************************************************)
(* C30: reconciliation is total over the records its raw model accepts,    *)
(* a null psfFlux included: from_alert_photometry and                      *)
(* from_forced_photometry return a Photometry or fail with a validation    *)
(* error, and with no other exception.                                     *)
(***************************************************************************)
C30_ReconciliationTotal ==
    (out.method \in {"alert", "forced"} /\ out.status /= "pending")
        => out.status \in {"ok", "ValidationError"}

(***************************************************************************)
(* C14: a Photometry reconciled from a detection record (AlertPhotometry)  *)
(* has isdiffpos = (psfFlux > 0), snr = |psfFlux| / psfFluxErr (0 when     *)
(* psfFluxErr <= 0), the magnitude of the absolute flux (+infinity for a   *)
(* zero flux), ra and dec of the record, and no diffmaglim; psfFlux = 100  *)
(* with psfFluxErr = 5 gives isdiffpos = True and snr = 20.                *)
(***************************************************************************)
C14_DetectionFields ==
    (out.method = "alert" /\ out.status = "ok") =>
        LET p    == Val(out.value)
            flux == Val(raw.psfFlux)
            err  == Val(raw.psfFluxErr)
            mag  == IF flux < 0 THEN -flux ELSE flux
        IN  /\ p.isdiffpos = Some(flux > 0)
            /\ IF err > 0
               THEN Val(p.snr).num * err = mag * Val(p.snr).den
               ELSE Val(p.snr).num = 0
            /\ p.magpsf = IF flux = 0 THEN Some(Inf)
                          ELSE Some(Finite(survey_zp + 225
                                           - 25 * Log10Floor(mag)))
            /\ p.ra = Some(raw.ra) /\ p.dec = Some(raw.dec)
            /\ IsNone(p.diffmaglim)
            /\ (flux = 100 /\ err = 5) =>
                  /\ p.isdiffpos = Some(TRUE)
                  /\ Val(p.snr).num = 20 * Val(p.snr).den

\* The scenario of the specification on a ZTF record: psfFlux = 100,
\* psfFluxErr = 5, magnitude 23.9 - 2.5 log10(100e-9) = 41.4.
C14_Witness ==
    /\ out.method = "alert" /\ out.status = "ok"
    /\ raw.psfFlux = Some(100) /\ raw.psfFluxErr = Some(5)
    /\ survey_zp = ZTF_ZP
    /\ Val(out.value).isdiffpos = Some(TRUE)
    /\ Val(out.value).snr = Some(Ratio(100, 5))
    /\ Val(out.value).magpsf = Some(Finite(414))

(***************************************************************************)
(* SpecNum: one call of a numeric primitive on a finite number.  Fluxes    *)
(* range over both signs, zero, and powers of ten.                         *)
(***************************************************************************)
NumFluxes    == (-MaxFlux..MaxFlux) \cup {-100, 10, 100, 1000}
NumFluxErrs  == (-1..MaxFluxErr) \cup {-5, 5, 40}

InitNum ==
    /\ num \in [fn : {"none"}, flux : NumFluxes, flux_err : NumFluxErrs,
                zp : {ZTF_ZP, LSST_ZP}, mag : {Inf}, mag_err : {0}]
    /\ alerts = <<>>
    /\ ReconIdle /\ PhotIdle /\ XmIdle
    /\ LazyIdle /\ ApiIdle /\ ConeIdle /\ ExtraIdle

\* mag, mag_err = flux2mag(flux, flux_err, zp)
Flux2Mag ==
    /\ num.fn = "none"
    /\ LET r == flux2mag(num.flux, num.flux_err, num.zp)
       IN  num' = [num EXCEPT !.fn = "flux2mag", !.mag = r[1],
                              !.mag_err = r[2]]
    /\ UNCHANGED <<alerts, reconVars, photVars, xmVars, lazyVars, apiVars,
                   coneVars, extraVars>>

\* diffmaglim = fluxerr2diffmaglim(flux_err, zp)
FluxErr2DiffMagLim ==
    /\ num.fn = "none"
    /\ num' = [num EXCEPT !.fn = "fluxerr2diffmaglim",
                          !.mag = fluxerr2diffmaglim(num.flux_err, num.zp)]
    /\ UNCHANGED <<alerts, reconVars, photVars, xmVars, lazyVars, apiVars,
                   coneVars, extraVars>>

NextNum == Flux2Mag \/ FluxErr2DiffMagLim

SpecNum == InitNum /\ [][NextNum]_vars

(***************************************************************************)
(* C13: flux2mag returns (+infinity, 0) for every flux <= 0, and a finite  *)
(* magnitude, with mag_err >= 0 when flux_err >= 0, for every flux > 0;    *)
(* fluxerr2diffmaglim returns +infinity for every flux_err <= 0 and a      *)
(* finite value for every flux_err > 0.                                    *)
(***************************************************************************)
C13_SentinelsAndFiniteValues ==
    /\ num.fn = "flux2mag" =>
          IF num.flux <= 0
          THEN num.mag.inf /\ num.mag_err = 0
          ELSE /\ ~num.mag.inf
               /\ num.flux_err >= 0 => num.mag_err >= 0
    /\ num.fn = "fluxerr2diffmaglim" =>
          (num.mag.inf <=> num.flux_err <= 0)

\* flux2mag on a negative flux with a positive error: the sentinel pair.
C13_Witness ==
    /\ num.fn = "flux2mag"
    /\ num.flux = -100 /\ num.flux_err = 5
    /\ num.mag = Inf /\ num.mag_err = 0

(***************************************************************************)
(* api_client.py, api.py: the REST transport.  A response is an HTTP       *)
(* status with a body; a body is not JSON, a JSON array, or a JSON object  *)
(* with optional "message", "detail" and "access_token" members.           *)
(***************************************************************************)
MaxSent == 3   \* HTTP requests handed to httpx in one behaviour

Statuses == {200, 399, 400, 401, 404, 500}

Body(json, object, message, detail, access_token) ==
    [json |-> json, object |-> object, message |-> message,
     detail |-> detail, access_token |-> access_token]

NoBody == Body(FALSE, FALSE, None, None, None)

Bodies ==
    {NoBody, Body(TRUE, FALSE, None, None, None)}
      \cup {Body(TRUE, TRUE, m, d, None) :
              m \in {None, Some("m")}, d \in {None, Some("d")}}
      \cup {Body(TRUE, TRUE, None, None, Some(t)) : t \in {"", "t1", "t2"}}

\* httpx.RequestError: no response at all.
NoResponse == [status |-> 0, body |-> NoBody]
Responses  == [status : Statuses, body : Bodies]

\* Truth of "token" for a str | None: None and "" are false.
Truthy(o) == ~IsNone(o) /\ Val(o) /= ""

\* Python's "a or b" on two str | None values.
PyOr(a, b) == IF Truthy(a) THEN a ELSE b

\* response.text, opaque.
Text(body) == "text"

\* error_data.get("message", response.text), inside try / except Exception:
\* a body that is not JSON, or not an object, falls back to response.text.
ErrorMessage(body) ==
    IF body.json /\ body.object /\ ~IsNone(body.message)
    THEN Val(body.message)
    ELSE Text(body)

Outcome(outcome, code, message, returned) ==
    [outcome |-> outcome, code |-> code, message |-> message,
     returned |-> returned]

\* APIClient._request / api._request after the request was handed to httpx:
\* the mapping of what came back to a return value or an exception.  The
\* status_code of an APIError raised without one is None (0 here).
MapResponse(resp) ==
    IF resp = NoResponse THEN Outcome("APIError", 0, "Request failed", None)
    ELSE IF resp.status = 401
    THEN Outcome("APIAuthenticationError", 401, "Authentication failed", None)
    ELSE IF resp.status = 404
    THEN Outcome("APINotFoundError", 404, "Resource not found", None)
    ELSE IF resp.status >= 400
    THEN Outcome("APIError", resp.status, ErrorMessage(resp.body), None)
    ELSE IF resp.body.json THEN Outcome("ok", 0, "", Some(resp.body))
    ELSE Outcome("JSONDecodeError", 0, "", None)

\* The exception of a request that needs a token and finds none.
NoToken == Outcome("APIAuthenticationError", 401, "Authentication required", None)

\* Mutant of NeedsToken: the client leaves the refusal to the service.
NeedsTokenNever(require_auth, tok) == FALSE

\* "if require_auth and not self._token" / "if not token" in _resolve_token.
NeedsToken(require_auth, tok) == require_auth /\ ~Truthy(tok)

\* Mutant of TokenAfterRequest: a 401 answer drops the stored token.
TokenAfterRequestDropOn401(tok, o) ==
    IF o.outcome = "APIAuthenticationError" THEN None ELSE tok

\* APIClient._request never assigns self._token.
TokenAfterRequest(tok, o) == tok

\* APIClient.is_authenticated
is_authenticated == token /= None

TransportCall(fn, arg, require_auth, resp, o, login_token) ==
    [fn |-> fn, arg |-> arg, require_auth |-> require_auth, response |-> resp,
     outcome |-> o.outcome, code |-> o.code, message |-> o.message,
     returned |-> o.returned, login_token |-> login_token]

(***************************************************************************)
(* SpecApi: one APIClient, constructed with or without a token argument    *)
(* under an environment with or without BABAMUL_API_TOKEN, then any        *)
(* sequence of requests, logins and close, and of requests of the          *)
(* module-level transport of api.py.                                       *)
(***************************************************************************)
InitApi ==
    /\ env \in {None, Some(""), Some("e")}
    /\ \E arg \in {None, Some(""), Some("a")} :
          /\ token = PyOr(arg, env)
          /\ call = TransportCall("init", arg, FALSE, NoResponse,
                                  Outcome("ok", 0, "", None), None)
    /\ closed = FALSE
    /\ sent = 0
    /\ alerts = <<>>
    /\ ReconIdle /\ PhotIdle /\ XmIdle
    /\ LazyIdle /\ NumIdle /\ ConeIdle /\ ExtraIdle

ApiFrame ==
    UNCHANGED <<alerts, reconVars, photVars, xmVars, lazyVars, numVars,
                coneVars, extraVars>>

\* What APIClient._request does with the answer resp of the service: the
\* outcome and whether the request was handed to httpx.  A closed
\* httpx.Client refuses to send (RuntimeError).
ClientRequestOutcome(require_auth, resp) ==
    IF NeedsToken(require_auth, token)
    THEN [o |-> NoToken, sends |-> FALSE]
    ELSE IF closed
    THEN [o |-> Outcome("RuntimeError", 0, "", None), sends |-> FALSE]
    ELSE [o |-> MapResponse(resp), sends |-> TRUE]

\* client._request(method, endpoint, require_auth=...)
ClientRequest ==
    /\ sent < MaxSent
    /\ \E require_auth \in BOOLEAN, resp \in Responses \cup {NoResponse} :
         LET r == ClientRequestOutcome(require_auth, resp)
         IN  /\ call' = TransportCall("client_request", None, require_auth,
                            IF r.sends THEN resp ELSE NoResponse, r.o, None)
             /\ sent' = IF r.sends THEN sent + 1 ELSE sent
             /\ token' = TokenAfterRequest(token, r.o)
    /\ UNCHANGED <<env, closed>>
    /\ ApiFrame

\* client.login(email, password)
Login ==
    /\ sent < MaxSent
    /\ \E resp \in Responses \cup {NoResponse} :
         LET r  == ClientRequestOutcome(FALSE, resp)
             rs == IF r.sends THEN resp ELSE NoResponse
         IN  /\ sent' = IF r.sends THEN sent + 1 ELSE sent
             /\ IF r.o.outcome /= "ok"
                THEN /\ token' = TokenAfterRequest(token, r.o)
                     /\ call' = TransportCall("login", None, FALSE, rs, r.o,
                                              None)
                ELSE IF ~resp.body.object
                THEN /\ token' = token
                     /\ call' = TransportCall("login", None, FALSE, rs,
                            Outcome("AttributeError", 0, "", None), None)
                ELSE /\ token' = resp.body.access_token
                     /\ call' = TransportCall("login", None, FALSE, rs,
                            IF Truthy(resp.body.access_token)
                            THEN Outcome("ok", 0, "", None)
                            ELSE Outcome("APIAuthenticationError", 401,
                                         "Login failed", None),
                            IF Truthy(resp.body.access_token)
                            THEN resp.body.access_token ELSE None)
    /\ UNCHANGED <<env, closed>>
    /\ ApiFrame

\* client.close()
Close ==
    /\ ~closed
    /\ closed' = TRUE
    /\ call' = TransportCall("close", None, FALSE, NoResponse,
                             Outcome("ok", 0, "", None), None)
    /\ UNCHANGED <<token, env, sent>>
    /\ ApiFrame

\* api._request(method, endpoint): the token is resolved from the
\* environment while the headers are built, before httpx.request.
ApiRequest ==
    /\ sent < MaxSent
    /\ \E resp \in Responses \cup {NoResponse} :
         IF NeedsToken(TRUE, env)
         THEN /\ call' = TransportCall("api_request", None, TRUE, NoResponse,
                                       NoToken, None)
              /\ sent' = sent
         ELSE /\ call' = TransportCall("api_request", None, TRUE, resp,
                                       MapResponse(resp), None)
              /\ sent' = sent + 1
    /\ UNCHANGED <<token, env, closed>>
    /\ ApiFrame

NextApi == ClientRequest \/ Login \/ Close \/ ApiRequest

SpecApi == InitApi /\ [][NextApi]_vars

\* The transport calls that got a response from the service.
Answered ==
    /\ call.fn \in {"client_request", "api_request"}
    /\ call.response /= NoResponse

(***************************************************************************)
(* C15: the REST transport maps each response to exactly one outcome: 401  *)
(* raises the authentication error, 404 the not-found error, any other     *)
(* status >= 400 the generic APIError carrying that status and the         *)
(* "message" or "detail" member of the body when present (else the raw     *)
(* response text), and a status below 400 returns the JSON body.           *)
(***************************************************************************)
C15_ResponseMapping ==
    Answered =>
        LET status == call.response.status
            body   == call.response.body
        IN  /\ status = 401 => call.outcome = "APIAuthenticationError"
            /\ status = 404 => call.outcome = "APINotFoundError"
            /\ (status >= 400 /\ status \notin {401, 404}) =>
                  /\ call.outcome = "APIError"
                  /\ call.code = status
                  /\ call.message =
                        IF body.json /\ body.object /\ ~IsNone(body.message)
                        THEN Val(body.message)
                        ELSE IF body.json /\ body.object /\ ~IsNone(body.detail)
                        THEN Val(body.detail)
                        ELSE "text"
            /\ (status < 400 /\ body.json) =>
                  call.outcome = "ok" /\ call.returned = Some(body)

\* The truthiness of a token, as the claims read "no token available".
Available(o) == o /= None /\ o /= Some("")

(***************************************************************************)
(* C16: a request that requires authentication, made while no token is     *)
(* available (APIClient: no stored token; api._request: BABAMUL_API_TOKEN  *)
(* unset or empty), raises APIAuthenticationError, and no HTTP request is  *)
(* sent.                                                                   *)
(***************************************************************************)
C16_NoTokenNoRequest ==
    [][/\ (call'.fn = "client_request" /\ call'.require_auth
             /\ ~Available(token)) =>
            (call'.outcome = "APIAuthenticationError" /\ sent' = sent)
       /\ (call'.fn = "api_request" /\ ~Available(env)) =>
            (call'.outcome = "APIAuthenticationError" /\ sent' = sent)]_vars

\* A client constructed without a token in an environment without one has
\* been refused a request that requires authentication; nothing was sent.
C16_Witness ==
    /\ call.fn = "client_request" /\ call.require_auth
    /\ token = None /\ env = None
    /\ call.outcome = "APIAuthenticationError" /\ call.code = 401
    /\ call.message = "Authentication required"
    /\ sent = 0

(***************************************************************************)
(* C17: a client created with no token (neither the argument nor           *)
(* BABAMUL_API_TOKEN) is not authenticated; when login returns, the client *)
(* is authenticated, and the stored token is the returned, non-empty       *)
(* token; an authenticated client stays authenticated, with the same       *)
(* token, through every step that is not a login, failed requests and      *)
(* close included.                                                         *)
(***************************************************************************)
C17_AuthenticatedAfterLogin ==
    /\ [](/\ (call.fn = "init" /\ call.arg = None /\ env = None)
               => ~is_authenticated
          /\ (call.fn = "login" /\ call.outcome = "ok") =>
                /\ is_authenticated
                /\ token = call.login_token
                /\ token /= Some(""))
    /\ [][(token /= None /\ call'.fn /= "login") => token' = token]_vars

\* A client that logged in (the token "t1" comes from no other place) and
\* has since been refused by the service with a 401.
C17_Witness ==
    /\ token = Some("t1")
    /\ call.fn = "client_request" /\ call.require_auth
    /\ call.response.status = 401
    /\ call.outcome = "APIAuthenticationError"
    /\ ~closed

(***************************************************************************)
(* C29: a login that fails, whether the request was refused or the         *)
(* response carried no access token, leaves the token of the client as it  *)
(* was: an authenticated client stays authenticated with the same token.   *)
(***************************************************************************)
C29_FailedLoginKeepsToken ==
    [][(call'.fn = "login" /\ call'.outcome /= "ok") => token' = token]_vars

(***************************************************************************)
(* api.py: the bulk cone search (cone_search_alerts; cone_search_objects   *)
(* has the same validation, batching and assembly).  The normalised        *)
(* coordinates are a dict, so their names are distinct: they are 1..n      *)
(* here, in dict order.  The service answers a batch with "data", a        *)
(* mapping from the names of that batch to lists of raw alerts, in the     *)
(* order of the batch; a list validates as a whole or not at all.          *)
(***************************************************************************)
MaxCoords == 3   \* number of coordinates handed to the bulk cone search

\* Mutant of ValidParams: a radius of 0 is let through.
ValidParamsRadiusZero(batch_size, n_threads, radius_arcsec) ==
    /\ ~(batch_size < 1 \/ batch_size > 5000)
    /\ ~(n_threads < 1 \/ n_threads > 12)
    /\ ~(radius_arcsec < 0 \/ radius_arcsec > 600)

\* The three range checks, in the order of the code; ValueError when one
\* of them fails.
ValidParams(batch_size, n_threads, radius_arcsec) ==
    /\ ~(batch_size < 1 \/ batch_size > 5000)
    /\ ~(n_threads < 1 \/ n_threads > 12)
    /\ ~(radius_arcsec <= 0 \/ radius_arcsec > 600)

\* Mutant of BatchLoop: a batch is submitted only when it is full.
RECURSIVE BatchLoopFullOnly(_, _, _, _, _)
BatchLoopFullOnly(i, n, batch_size, batch, futs) ==
    IF i > n THEN futs
    ELSE LET b == Append(batch, i)
         IN  IF Len(b) = batch_size
             THEN BatchLoopFullOnly(i + 1, n, batch_size, <<>>, Append(futs, b))
             ELSE BatchLoopFullOnly(i + 1, n, batch_size, b, futs)

\* The loop over normalized_coords.items(): the name is appended to the
\* batch, and the batch is submitted when it is full or the name is the
\* last one.  i is the index of the name, futs the batches submitted so far.
RECURSIVE BatchLoop(_, _, _, _, _)
BatchLoop(i, n, batch_size, batch, futs) ==
    IF i > n THEN futs
    ELSE LET b == Append(batch, i)
         IN  IF Len(b) = batch_size \/ i = n
             THEN BatchLoop(i + 1, n, batch_size, <<>>, Append(futs, b))
             ELSE BatchLoop(i + 1, n, batch_size, b, futs)

Batches(n, batch_size) == BatchLoop(1, n, batch_size, <<>>, <<>>)

\* What a future holds: the request raised (ok = FALSE), or it returned
\* data; valid[j] tells whether the list of the j-th name of the batch
\* passes model_validate.
FutureOf(batch) ==
    {[batch |-> batch, ok |-> FALSE, valid |-> <<>>]}
      \cup {[batch |-> batch, ok |-> TRUE, valid |-> v] :
              v \in [1..Len(batch) -> BOOLEAN]}

\* The futures of the first k batches, with every combination of answers.
RECURSIVE FuturesUpTo(_, _)
FuturesUpTo(batches, k) ==
    IF k = 0 THEN {<<>>}
    ELSE {Append(f, x) : f \in FuturesUpTo(batches, k - 1),
                         x \in FutureOf(batches[k])}

Futures(batches) == FuturesUpTo(batches, Len(batches))

\* The number of names of the batch assigned before the loop over
\* data.items() ends or model_validate raises.
Assigned(fut) ==
    IF ~fut.ok THEN 0
    ELSE IF \A j \in 1..Len(fut.batch) : fut.valid[j] THEN Len(fut.batch)
    ELSE (CHOOSE j \in 1..Len(fut.batch) :
             ~fut.valid[j] /\ \A h \in 1..(j - 1) : fut.valid[h]) - 1

\* Mutant of ProcessFuture: "results" is rebound to the entries of the
\* batch instead of being updated.
ProcessFutureRebinding(res, fut) ==
    [i \in 1..Len(res) |->
        IF \E j \in 1..Assigned(fut) : fut.batch[j] = i
        THEN Some("alerts") ELSE None]

\* The body of "for future in as_completed(futures)": future.result()
\* re-raises the exception of the request; results[name] is assigned name
\* by name, and an exception ends the batch where it occurs (it is logged).
ProcessFuture(res, fut) ==
    [i \in 1..Len(res) |->
        IF \E j \in 1..Assigned(fut) : fut.batch[j] = i
        THEN Some("alerts") ELSE res[i]]

(***************************************************************************)
(* SpecCone: one call of the bulk cone search.  The futures complete in    *)
(* any order; the calling thread takes them from as_completed one by one.  *)
(***************************************************************************)
ConeInputs ==
    [fn : {"cone_search_alerts", "cone_search_objects"},
     n : 0..MaxCoords,
     batch_size : {0, 1, 2, 5000, 5001},
     n_threads : {0, 1, 12, 13},
     radius_arcsec : {0, 1, 600, 601}]

InitCone ==
    /\ coneIn \in ConeInputs
    /\ conePc = "idle"
    /\ futures = <<>>
    /\ completed = <<>>
    /\ results = <<>>
    /\ alerts = <<>>
    /\ ReconIdle /\ PhotIdle /\ XmIdle
    /\ LazyIdle /\ NumIdle /\ ApiIdle /\ ExtraIdle

ConeFrame ==
    UNCHANGED <<alerts, reconVars, photVars, xmVars, lazyVars, numVars,
                apiVars, extraVars>>

\* The call up to the end of the submission loop: validation, then one
\* executor.submit per batch.
ConeSubmit ==
    /\ conePc = "idle"
    /\ IF ValidParams(coneIn.batch_size, coneIn.n_threads,
                      coneIn.radius_arcsec)
       THEN /\ futures' \in Futures(Batches(coneIn.n, coneIn.batch_size))
            /\ conePc' = "running"
            /\ results' = [i \in 1..coneIn.n |-> None]
       ELSE /\ futures' = <<>>
            /\ conePc' = "raised"
            /\ results' = results
    /\ UNCHANGED <<coneIn, completed>>
    /\ ConeFrame

\* One iteration of the loop over as_completed(futures), on the future k.
ConeComplete(k) ==
    /\ conePc = "running"
    /\ k \in 1..Len(futures)
    /\ \A j \in 1..Len(completed) : completed[j] /= k
    /\ results' = ProcessFuture(results, futures[k])
    /\ completed' = Append(completed, k)
    /\ UNCHANGED <<coneIn, conePc, futures>>
    /\ ConeFrame

\* "return results", after the last future.
ConeReturn ==
    /\ conePc = "running"
    /\ Len(completed) = Len(futures)
    /\ conePc' = "returned"
    /\ UNCHANGED <<coneIn, futures, completed, results>>
    /\ ConeFrame

NextCone ==
    \/ ConeSubmit
    \/ \E k \in 1..MaxCoords : ConeComplete(k)
    \/ ConeReturn

SpecCone == InitCone /\ [][NextCone]_vars

\* The batch a name was submitted in, and its position there.
BatchOf(name) == CHOOSE k \in 1..Len(futures) :
                    \E j \in 1..Len(futures[k].batch) : futures[k].batch[j] = name
PosOf(name)   == CHOOSE j \in 1..Len(futures[BatchOf(name)].batch) :
                    futures[BatchOf(name)].batch[j] = name

\* A batch failed: its request raised, or one of its lists did not validate.
Failed(k) ==
    \/ ~futures[k].ok
    \/ \E j \in 1..Len(futures[k].batch) : ~futures[k].valid[j]

(***************************************************************************)
(* C28: the batches of the bulk cone search partition the normalized       *)
(* coordinates.  For n coordinates and batch size b there are exactly      *)
(* ceil(n / b) requests (none for n = 0), every batch holds between 1 and  *)
(* b coordinates, and the names appear in input order, each in exactly     *)
(* one batch.                                                              *)
(***************************************************************************)
C28_BatchesPartitionCoordinates ==
    conePc \in {"running", "returned"} =>
        LET n == coneIn.n
            b == coneIn.batch_size
            places == {p \in (1..Len(futures)) \X (1..b) : p[2] <= Len(futures[p[1]].batch)}
        IN  /\ Len(futures) = (n + b - 1) \div b
            /\ \A k \in 1..Len(futures) : Len(futures[k].batch) \in 1..b
            /\ \A name \in 1..n :
                  Cardinality({p \in places : futures[p[1]].batch[p[2]] = name}) = 1
            /\ \A p \in places : futures[p[1]].batch[p[2]] \in 1..n
            /\ \A p, q \in places :
                  (p[1] < q[1] \/ (p[1] = q[1] /\ p[2] < q[2]))
                      => futures[p[1]].batch[p[2]] < futures[q[1]].batch[q[2]]

\* Three coordinates in batches of two: a full batch and the rest.
C28_Witness ==
    /\ conePc = "running"
    /\ coneIn.n = 3 /\ coneIn.batch_size = 2
    /\ Len(futures) = 2
    /\ futures[1].batch = <<1, 2>>
    /\ futures[2].batch = <<3>>

(***************************************************************************)
(* C18: the mapping the bulk cone search returns is the same for every     *)
(* completion order of the batch requests: it depends on the answers       *)
(* only.  A name is present exactly when the request of its batch          *)
(* returned and the lists of the batch up to its own validate.             *)
(***************************************************************************)
C18_OrderIndependentResult ==
    conePc = "returned" =>
        \A name \in 1..coneIn.n :
            results[name] =
                IF /\ futures[BatchOf(name)].ok
                   /\ \A j \in 1..PosOf(name) : futures[BatchOf(name)].valid[j]
                THEN Some("alerts") ELSE None

\* Three batches of one name each, all answered, taken from as_completed
\* in the order 3, 1, 2.
C18_Witness ==
    /\ conePc = "returned"
    /\ Len(futures) = 3
    /\ completed = <<3, 1, 2>>
    /\ \A k \in 1..3 : ~Failed(k)
    /\ \A name \in 1..3 : results[name] = Some("alerts")

(***************************************************************************)
(* C19: a batch of the bulk cone search that fails (its request raises,    *)
(* or an error occurs while its response is processed) contributes no      *)
(* entries, every entry of every batch that succeeds is present, and the   *)
(* call returns normally.                                                  *)
(***************************************************************************)
C19_FailedBatchExcluded ==
    /\ (conePc = "running" /\ Len(completed) = Len(futures))
          => ENABLED ConeReturn
    /\ conePc = "returned" =>
          \A name \in 1..coneIn.n :
              results[name] = IF Failed(BatchOf(name)) THEN None
                              ELSE Some("alerts")

(***************************************************************************)
(* C20: when n_threads is outside 1..12, batch_size outside 1..5000 or     *)
(* radius_arcsec outside (0, 600], the bulk cone search raises ValueError  *)
(* and submits no request to the worker pool.                              *)
(***************************************************************************)
C20_InvalidParamsNothingSubmitted ==
    (/\ conePc /= "idle"
     /\ \/ coneIn.n_threads \notin 1..12
        \/ coneIn.batch_size \notin 1..5000
        \/ ~(0 < coneIn.radius_arcsec /\ coneIn.radius_arcsec <= 600))
    => /\ conePc = "raised"
       /\ futures = <<>>
       /\ completed = <<>>

\* A call with three coordinates, valid batch size and threads, and a
\* radius of 0: ValueError, nothing submitted.
C20_Witness ==
    /\ conePc = "raised"
    /\ coneIn.n = 3 /\ coneIn.batch_size = 1 /\ coneIn.n_threads = 12
    /\ coneIn.radius_arcsec = 0
    /\ futures = <<>>

(***************************************************************************)
(* models.py: an alert.  prv_candidates, fp_hists, prv_nondetections and   *)
(* cross_matches are optional; an LsstAlert has no prv_nondetections       *)
(* (None throughout).                                                      *)
(***************************************************************************)
Alert(survey, objectId, prv, fp, nd, xm) ==
    [survey |-> survey, objectId |-> objectId, prv_candidates |-> prv,
     fp_hists |-> fp, prv_nondetections |-> nd, cross_matches |-> xm]

\* Mutant of NeedsBackfill: the lists are tested for truth, not for None.
NeedsBackfillFalsy(a) ==
    /\ a.prv_candidates \in {None, Some(<<>>)}
    /\ a.fp_hists \in {None, Some(<<>>)}
    /\ a.survey = "ZTF" => a.prv_nondetections \in {None, Some(<<>>)}

\* The guard of the backfill in ZtfAlert / LsstAlert.get_photometry.
NeedsBackfill(a) ==
    /\ IsNone(a.prv_candidates)
    /\ IsNone(a.fp_hists)
    /\ a.survey = "ZTF" => IsNone(a.prv_nondetections)

\* api.get_photometry: get_object, then ObjPhotometry built from the lists
\* of the object; a list[Photometry] field rejects None, and an LsstAlert
\* has no prv_nondetections attribute, so getattr yields [].
api_get_photometry(survey, obj, transportOk) ==
    LET nd == IF survey = "ZTF" THEN obj.prv_nondetections ELSE Some(<<>>)
    IN  IF ~transportOk THEN Raised("APIError")
        ELSE IF IsNone(obj.prv_candidates) \/ IsNone(obj.fp_hists) \/ IsNone(nd)
        THEN Raised("ValidationError")
        ELSE Ok([prv_candidates |-> Val(obj.prv_candidates),
                 fp_hists |-> Val(obj.fp_hists),
                 prv_nondetections |-> Val(nd)])

\* Mutant of Backfilled: only prv_candidates is assigned from the response.
BackfilledPrvOnly(a, data) ==
    [a EXCEPT !.prv_candidates = Some(data.prv_candidates)]

\* The assignments after the fetch (LsstAlert assigns two lists only).
Backfilled(a, data) ==
    [a EXCEPT !.prv_candidates = Some(data.prv_candidates),
              !.fp_hists = Some(data.fp_hists),
              !.prv_nondetections =
                  IF a.survey = "ZTF" THEN Some(data.prv_nondetections) ELSE @]

\* "if self.x: photometry.extend(self.x)": None and [] add nothing.
ListOf(o) == IF IsNone(o) THEN <<>> ELSE Val(o)

\* Mutant of ConcatLists: non-detections are added before forced photometry.
ConcatListsNdFirst(a) ==
    ListOf(a.prv_candidates)
      \o (IF a.survey = "ZTF" THEN ListOf(a.prv_nondetections) ELSE <<>>)
      \o ListOf(a.fp_hists)

\* The concatenation: prv_candidates, fp_hists, prv_nondetections (ZTF only).
ConcatLists(a) ==
    ListOf(a.prv_candidates)
      \o ListOf(a.fp_hists)
      \o (IF a.survey = "ZTF" THEN ListOf(a.prv_nondetections) ELSE <<>>)

\* x placed behind every element of the sorted sequence s with jd <= x.jd.
InsertByJd(s, x) ==
    LET n == Cardinality({i \in 1..Len(s) : s[i].jd <= x.jd})
    IN  SubSeq(s, 1, n) \o <<x>> \o SubSeq(s, n + 1, Len(s))

\* Mutant of SortByJd: the list is left in concatenation order.
SortByJdSkipped(s) == s

\* photometry.sort(key=lambda x: x.jd): list.sort is stable.
RECURSIVE SortByJd(_)
SortByJd(s) ==
    IF s = <<>> THEN <<>>
    ELSE InsertByJd(SortByJd(SubSeq(s, 1, Len(s) - 1)), s[Len(s)])

Key(p) == <<p.jd, p.band>>

\* Mutant of Dedup: a record is compared with its predecessor only.
RECURSIVE DedupAdjacent(_)
DedupAdjacent(s) ==
    IF Len(s) <= 1 THEN s
    ELSE LET front == SubSeq(s, 1, Len(s) - 1)
             last  == s[Len(s)]
         IN  IF Key(front[Len(front)]) = Key(last)
             THEN DedupAdjacent(front)
             ELSE Append(DedupAdjacent(front), last)

\* The scan with the set "seen": a record is kept iff no earlier record of
\* the scanned list has its (jd, band).
RECURSIVE Dedup(_)
Dedup(s) ==
    IF s = <<>> THEN <<>>
    ELSE LET front == SubSeq(s, 1, Len(s) - 1)
             last  == s[Len(s)]
         IN  IF \E j \in 1..Len(front) : Key(front[j]) = Key(last)
             THEN Dedup(front)
             ELSE Append(Dedup(front), last)

\* Mutant of Combine: the flag is ignored, the list is always deduplicated.
CombineAlwaysDedup(a, deduplicated) == Dedup(SortByJd(ConcatLists(a)))

\* get_photometry after the backfill: concatenate, sort, deduplicate.
Combine(a, deduplicated) ==
    LET photometry == SortByJd(ConcatLists(a))
    IN  IF deduplicated THEN Dedup(photometry) ELSE photometry

(***************************************************************************)
(* SpecPhot: one alert and any sequence of get_photometry calls on it.     *)
(* The photometry lists hold records as reconciliation produces them: a    *)
(* list of prv_candidates comes from from_alert_photometry, and so on.     *)
(***************************************************************************)
\* The raw records behind them: (jd, band) among (1, g), (1, r), (2, r), and
\* (1, g) with two different flux errors, so that records of one list with
\* the same (jd, band) can differ.
PoolRaw ==
    {d \in [jd : Jds, psfFlux : {Some(5)}, psfFluxErr : {Some(1), Some(2)},
            band : Bands, ra : {10}, dec : {20}] :
        \/ Val(d.psfFluxErr) = 1 /\ ~(d.jd = 2 /\ d.band = "g")
        \/ Val(d.psfFluxErr) = 2 /\ d.jd = 1 /\ d.band = "g"}

Zp(survey) == IF survey = "ZTF" THEN ZTF_ZP ELSE LSST_ZP

PrvPool(survey) ==
    {Val(from_alert_photometry(d, Zp(survey)).value) : d \in PoolRaw}
FpPool(survey) ==
    {Val(from_forced_photometry(d, Zp(survey)).value) : d \in PoolRaw}
NdPool(survey) ==
    {Val(from_non_detection_photometry(d, Zp(survey)).value) : d \in PoolRaw}

\* The optional lists of k records over a pool: None or [] when k = 0.
OptLists(pool, k) ==
    IF k = 0 THEN {None, Some(<<>>)} ELSE {Some(s) : s \in [1..k -> pool]}

\* The photometry lists of an alert or of a stored object of the survey,
\* MaxLen records in all at most.
ListTriples(survey) ==
    UNION {
      UNION {
        UNION {
          {[prv_candidates |-> a, fp_hists |-> b, prv_nondetections |-> c] :
              a \in OptLists(PrvPool(survey), k1),
              b \in OptLists(FpPool(survey), k2),
              c \in IF survey = "ZTF" THEN OptLists(NdPool(survey), k3)
                    ELSE {None}} :
          k3 \in IF survey = "ZTF" THEN 0..(MaxLen - k1 - k2) ELSE {0}} :
        k2 \in 0..(MaxLen - k1)} :
      k1 \in 0..MaxLen}

InitPhot ==
    /\ \E survey \in Surveys : \E l \in ListTriples(survey) :
          alerts = <<Alert(survey, "o1", l.prv_candidates, l.fp_hists,
                           l.prv_nondetections, None)>>
    /\ server \in IF NeedsBackfill(alerts[1])
                  THEN ListTriples(alerts[1].survey) ELSE {NoServer}
    /\ fetchCount = 0
    /\ rets = <<>>
    /\ ReconIdle
    /\ XmIdle
    /\ LazyIdle /\ NumIdle /\ ApiIdle /\ ConeIdle /\ ExtraIdle

Call(deduplicated, status, value) ==
    [deduplicated |-> deduplicated, status |-> status, value |-> value]

\* Mutant of AfterCombine: "photometry = self.prv_candidates" in place of a
\* fresh list, so that extend and sort act on the alert's own list.
AfterCombineAliased(a, deduplicated) ==
    IF ListOf(a.prv_candidates) = <<>> THEN a
    ELSE [a EXCEPT !.prv_candidates = Some(SortByJd(ConcatLists(a)))]

\* The alert after the combination: "photometry" is a fresh list, extend
\* copies the references, sort and the scan act on the fresh list only.
AfterCombine(a, deduplicated) == a

\* ZtfAlert.get_photometry / LsstAlert.get_photometry, as one step.
GetPhotometry ==
    /\ Len(rets) < MaxCalls
    /\ \E deduplicated \in BOOLEAN, transportOk \in BOOLEAN :
         LET a == alerts[1]
         IN  IF NeedsBackfill(a)
             THEN LET resp == api_get_photometry(a.survey, server, transportOk)
                  IN  /\ fetchCount' = fetchCount + 1
                      /\ IF resp.status = "ok"
                         THEN LET b == Backfilled(a, Val(resp.value))
                              IN  /\ alerts' = <<AfterCombine(b, deduplicated)>>
                                  /\ rets' = Append(rets,
                                       Call(deduplicated, "ok",
                                            Combine(b, deduplicated)))
                         ELSE /\ alerts' = alerts
                              /\ rets' = Append(rets,
                                   Call(deduplicated, resp.status, <<>>))
             ELSE /\ fetchCount' = fetchCount
                  /\ alerts' = <<AfterCombine(a, deduplicated)>>
                  /\ rets' = Append(rets,
                       Call(deduplicated, "ok", Combine(a, deduplicated)))
    /\ UNCHANGED <<server, reconVars, xmVars>>
    /\ UNCHANGED <<lazyVars, numVars, apiVars, coneVars, extraVars>>

NextPhot == GetPhotometry

SpecPhot == InitPhot /\ [][NextPhot]_vars

\* The get_photometry calls of the history that returned a list.
Returned == {i \in 1..Len(rets) : rets[i].status = "ok"}

\* The records of the alert in source-list precedence.
InPrecedence(a) ==
    (IF IsNone(a.prv_candidates) THEN <<>> ELSE Val(a.prv_candidates))
      \o (IF IsNone(a.fp_hists) THEN <<>> ELSE Val(a.fp_hists))
      \o (IF IsNone(a.prv_nondetections) THEN <<>>
          ELSE Val(a.prv_nondetections))

Occurrences(s, x) == Cardinality({i \in 1..Len(s) : s[i] = x})

(***************************************************************************)
(* C1: get_photometry(deduplicated=True) returns a list in which no two    *)
(* records have the same (jd, band), for ZTF and LSST alerts and every     *)
(* content of the photometry lists.                                        *)
(***************************************************************************)
C1_DedupNoEqualJdBand ==
    \A i \in Returned :
        rets[i].deduplicated =>
            \A j, k \in 1..Len(rets[i].value) :
                j < k => <<rets[i].value[j].jd, rets[i].value[j].band>>
                           /= <<rets[i].value[k].jd, rets[i].value[k].band>>

\* A deduplicated call on an alert whose first and third record share their
\* (jd, band), with a record of the same jd and another band between them.
C1_Witness ==
    \E i \in Returned :
        LET c == InPrecedence(alerts[1])
        IN  /\ rets[i].deduplicated
            /\ Len(c) = 3
            /\ c[1].jd = c[2].jd /\ c[1].band /= c[2].band
            /\ c[3].jd = c[1].jd /\ c[3].band = c[1].band
            /\ Len(rets[i].value) = 2

(***************************************************************************)
(* C2: for both values of deduplicated, the list get_photometry returns    *)
(* is non-decreasing in jd from its first to its last element.             *)
(***************************************************************************)
C2_NonDecreasingJd ==
    \A i \in Returned :
        \A j, k \in 1..Len(rets[i].value) :
            j < k => rets[i].value[j].jd <= rets[i].value[k].jd

\* Calls with both flags returned on an alert whose lists, taken in order,
\* are not sorted by jd.
C2_Witness ==
    /\ \E i, j \in Returned : rets[i].deduplicated /\ ~rets[j].deduplicated
    /\ \E j, k \in 1..Len(InPrecedence(alerts[1])) :
          j < k /\ InPrecedence(alerts[1])[j].jd > InPrecedence(alerts[1])[k].jd

(***************************************************************************)
(* C3: when several records of an alert share their (jd, band),            *)
(* get_photometry(deduplicated=True) keeps exactly the one that comes      *)
(* first in source-list precedence: prv_candidates before fp_hists before  *)
(* prv_nondetections, and the earliest element within one list.            *)
(***************************************************************************)
C3_FirstInPrecedenceKept ==
    \A i \in Returned :
        rets[i].deduplicated =>
            LET c == InPrecedence(alerts[1])
                v == rets[i].value
                SameKey(p, q) == p.jd = q.jd /\ p.band = q.band
                First(p) == CHOOSE n \in 1..Len(c) :
                               /\ SameKey(c[n], p)
                               /\ \A m \in 1..(n - 1) : ~SameKey(c[m], p)
            IN  /\ \A n \in 1..Len(c) :
                      Cardinality({k \in 1..Len(v) : SameKey(v[k], c[n])}) = 1
                /\ \A k \in 1..Len(v) :
                      /\ \E n \in 1..Len(c) : SameKey(c[n], v[k])
                      /\ v[k] = c[First(v[k])]

\* The example of the specification: prv_candidates = [(jd 1, g)],
\* fp_hists = [(jd 1, g)], prv_nondetections = [(jd 2, r)] yields the
\* prv_candidates record, then the non-detection.
C3_Witness ==
    \E i \in Returned :
        LET a == alerts[1]
        IN  /\ rets[i].deduplicated
            /\ a.survey = "ZTF"
            /\ ~IsNone(a.prv_candidates) /\ Len(Val(a.prv_candidates)) = 1
            /\ ~IsNone(a.fp_hists) /\ Len(Val(a.fp_hists)) = 1
            /\ ~IsNone(a.prv_nondetections)
            /\ Len(Val(a.prv_nondetections)) = 1
            /\ Val(a.prv_candidates)[1].jd = 1
            /\ Val(a.prv_candidates)[1].band = "g"
            /\ Val(a.fp_hists)[1].jd = 1
            /\ Val(a.fp_hists)[1].band = "g"
            /\ Val(a.prv_nondetections)[1].jd = 2
            /\ Val(a.prv_nondetections)[1].band = "r"
            /\ rets[i].value =
                  <<Val(a.prv_candidates)[1], Val(a.prv_nondetections)[1]>>
            /\ Val(a.fp_hists)[1] /= Val(a.prv_candidates)[1]

(***************************************************************************)
(* C4: get_photometry(deduplicated=False) returns as many records as the   *)
(* populated photometry lists of the alert hold together, duplicates       *)
(* included, and the returned records are a permutation of their           *)
(* concatenation.                                                          *)
(***************************************************************************)
C4_FullCountWithoutDedup ==
    \A i \in Returned :
        ~rets[i].deduplicated =>
            LET a == alerts[1]
                c == InPrecedence(a)
                v == rets[i].value
                Size(o) == IF IsNone(o) THEN 0 ELSE Len(Val(o))
            IN  /\ Len(v) = Size(a.prv_candidates) + Size(a.fp_hists)
                              + Size(a.prv_nondetections)
                /\ \A n \in 1..Len(c) :
                      Occurrences(v, c[n]) = Occurrences(c, c[n])
                /\ \A k \in 1..Len(v) : Occurrences(c, v[k]) > 0

\* A call without deduplication returned all three records of an alert that
\* holds the same record twice.
C4_Witness ==
    \E i \in Returned :
        /\ ~rets[i].deduplicated
        /\ Len(rets[i].value) = 3
        /\ \E n \in 1..3 : Occurrences(InPrecedence(alerts[1]),
                                       InPrecedence(alerts[1])[n]) = 2

C23_FetchIffAllListsNull ==
    [][LET a == alerts[1]
           b == alerts'[1]
           allNull == /\ a.prv_candidates = None
                      /\ a.fp_hists = None
                      /\ a.survey = "ZTF" => a.prv_nondetections = None
       IN  /\ allNull => fetchCount' = fetchCount + 1
           /\ ~allNull => fetchCount' = fetchCount
           /\ (allNull /\ rets'[Len(rets')].status = "ok")
                 => /\ b.prv_candidates = server.prv_candidates
                    /\ b.fp_hists = server.fp_hists
                    /\ b.prv_nondetections = server.prv_nondetections]_vars

\* A ZTF alert with three None lists has fetched once and holds the three
\* lists of the stored object, which has records; the second call did not
\* fetch.
C23_Witness ==
    /\ Len(rets) = 2 /\ Returned = {1, 2}
    /\ fetchCount = 1
    /\ alerts[1].survey = "ZTF"
    /\ Len(Val(server.prv_candidates)) > 0
    /\ Len(Val(server.prv_nondetections)) > 0
    /\ alerts[1].prv_candidates = server.prv_candidates
    /\ alerts[1].fp_hists = server.fp_hists
    /\ alerts[1].prv_nondetections = server.prv_nondetections

(***************************************************************************)
(* C11: get_photometry does not mutate its inputs: when the photometry     *)
(* lists of the alert are already populated (not all None, so that no      *)
(* backfill happens), every list has the same contents in the same order   *)
(* after the call as before it, for both values of deduplicated.           *)
(***************************************************************************)
C11_ListsNotMutated ==
    [][LET a == alerts[1]
           b == alerts'[1]
       IN  ~(/\ IsNone(a.prv_candidates)
             /\ IsNone(a.fp_hists)
             /\ a.survey = "ZTF" => IsNone(a.prv_nondetections))
           => /\ b.prv_candidates = a.prv_candidates
              /\ b.fp_hists = a.fp_hists
              /\ b.prv_nondetections = a.prv_nondetections]_vars

\* Calls with both flags returned, without a fetch, on an alert whose
\* prv_candidates are not sorted by jd and are followed by an fp_hists
\* record with the (jd, band) of one of them.
C11_Witness ==
    /\ fetchCount = 0
    /\ \E i, j \in Returned : rets[i].deduplicated /\ ~rets[j].deduplicated
    /\ LET a == alerts[1]
       IN  /\ ~IsNone(a.prv_candidates) /\ ~IsNone(a.fp_hists)
           /\ Len(Val(a.prv_candidates)) = 2
           /\ Val(a.prv_candidates)[1].jd > Val(a.prv_candidates)[2].jd
           /\ Len(Val(a.fp_hists)) = 1
           /\ Val(a.fp_hists)[1].jd = Val(a.prv_candidates)[2].jd
           /\ Val(a.fp_hists)[1].band = Val(a.prv_candidates)[2].band

(***************************************************************************)
(* models.py: add_cross_matches.  get_cross_matches_bulk is the bulk       *)
(* cross-match endpoint of the REST collaborator: given a survey and a     *)
(* list of objectIds it answers with a mapping objectId -> CrossMatches    *)
(* for those of the requested ids that have a match, or fails as a whole   *)
(* (transport or authentication failure).                                  *)
(***************************************************************************)
NoMap     == [o \in ObjectIds |-> None]
NotCalled == [status |-> "notcalled", map |-> NoMap]

get_cross_matches_bulk(object_ids) ==
    {[status |-> "raised", map |-> NoMap]}
      \cup {[status |-> "ok", map |-> m] :
              m \in {f \in [ObjectIds -> {None} \cup {Some(x) : x \in XmValues}] :
                       \A o \in ObjectIds \ object_ids : f[o] = None}}

\* ztf_object_ids / lsst_object_ids: the alerts of the survey whose
\* cross_matches is None.
UnsetIds(als, survey) ==
    {als[i].objectId : i \in {n \in 1..Len(als) :
        als[n].survey = survey /\ IsNone(als[n].cross_matches)}}

\* Mutant of AssignCrossMatches: every alert is looked up in the ZTF answer.
AssignFromZtfOnly(als, ztf_cross_matches, lsst_cross_matches) ==
    [i \in 1..Len(als) |->
        [als[i] EXCEPT !.cross_matches = ztf_cross_matches[als[i].objectId]]]

\* The loop "for alert in alerts": dict.get yields None for a missing key.
AssignCrossMatches(als, ztf_cross_matches, lsst_cross_matches) ==
    [i \in 1..Len(als) |->
        [als[i] EXCEPT !.cross_matches =
            IF als[i].survey = "ZTF"
            THEN ztf_cross_matches[als[i].objectId]
            ELSE lsst_cross_matches[als[i].objectId]]]

\* Mutant of AfterAddCrossMatches: the alerts of a partition whose fetch
\* succeeded are assigned although the other fetch failed.
AfterAddCrossMatchesPartial(als, z, l) ==
    [i \in 1..Len(als) |->
        LET r == IF als[i].survey = "ZTF" THEN z ELSE l
        IN  IF r.status = "ok"
            THEN [als[i] EXCEPT !.cross_matches = r.map[als[i].objectId]]
            ELSE als[i]]

\* The alerts when add_cross_matches ends: both fetches precede the loop,
\* and an exception of either leaves before the loop runs.
AfterAddCrossMatches(als, z, l) ==
    IF z.status = "ok" /\ l.status = "ok"
    THEN AssignCrossMatches(als, z.map, l.map)
    ELSE als

(***************************************************************************)
(* SpecXm: one call of add_cross_matches on a list of alerts.              *)
(***************************************************************************)
XmAlerts ==
    {Alert(s, o, None, None, None, x) :
        s \in Surveys, o \in ObjectIds, x \in {None, Some("xA")}}

InitXm ==
    /\ \E n \in 1..MaxAlerts : alerts \in [1..n -> XmAlerts]
    /\ xmBefore = <<>>
    /\ xmResp = NoResp
    /\ xmStatus = "idle"
    /\ ReconIdle
    /\ PhotIdle
    /\ LazyIdle /\ NumIdle /\ ApiIdle /\ ConeIdle /\ ExtraIdle

AddCrossMatches ==
    /\ xmStatus = "idle"
    /\ \E z \in get_cross_matches_bulk(UnsetIds(alerts, "ZTF")) :
         \E l \in IF z.status = "ok"
                  THEN get_cross_matches_bulk(UnsetIds(alerts, "LSST"))
                  ELSE {NotCalled} :
            /\ xmResp' = [s \in Surveys |-> IF s = "ZTF" THEN z ELSE l]
            /\ xmStatus' = IF z.status = "ok" /\ l.status = "ok"
                           THEN "returned" ELSE "raised"
            /\ alerts' = AfterAddCrossMatches(alerts, z, l)
    /\ xmBefore' = alerts
    /\ UNCHANGED <<reconVars, photVars>>
    /\ UNCHANGED <<lazyVars, numVars, apiVars, coneVars, extraVars>>

NextXm == AddCrossMatches

SpecXm == InitXm /\ [][NextXm]_vars

(***************************************************************************)
(* models.py: the lazy accessors of an alert.  Next to the fields of       *)
(* Alert, an alert carries candid, candidate, properties (opaque here) and *)
(* the three cutouts, each None or bytes.                                  *)
(***************************************************************************)
Candids == {1, 2}
Images  == {"", "png", "new"}           \* bytes of a cutout; b"" for a missing one

FullAlert(a, candid, candidate, properties, cutouts) ==
    [survey |-> a.survey, objectId |-> a.objectId,
     prv_candidates |-> a.prv_candidates, fp_hists |-> a.fp_hists,
     prv_nondetections |-> a.prv_nondetections,
     cross_matches |-> a.cross_matches,
     candid |-> candid, candidate |-> candidate, properties |-> properties,
     cutoutScience |-> cutouts.cutoutScience,
     cutoutTemplate |-> cutouts.cutoutTemplate,
     cutoutDifference |-> cutouts.cutoutDifference]

\* AlertCutouts, as api.get_cutouts builds it from the answer of the
\* service: candid is data["candid"], a missing image is b"".
AlertCutouts(candid, science, template, difference) ==
    [candid |-> candid, cutoutScience |-> science,
     cutoutTemplate |-> template, cutoutDifference |-> difference]

\* The guard of get_cutouts: all three cutouts are present.
HasCutouts(a) ==
    /\ ~IsNone(a.cutoutScience)
    /\ ~IsNone(a.cutoutTemplate)
    /\ ~IsNone(a.cutoutDifference)

\* base64.b64decode on the texts the service sends: "cG5n" and "bmV3" are
\* the encodings of the bytes "png" and "new".
b64decode(text) ==
    IF text = "cG5n" THEN "png" ELSE IF text = "bmV3" THEN "new" ELSE ""

\* One image of api.get_cutouts: base64.b64decode(data[x]) if data.get(x)
\* else b"".  A missing key, null and "" all give b"".
Blob(o) == IF Truthy(o) THEN b64decode(Val(o)) ELSE ""

\* api.get_cutouts: the AlertCutouts built from the answer of the service.
api_get_cutouts(data) ==
    AlertCutouts(data.candid, Blob(data.cutoutScience),
                 Blob(data.cutoutTemplate), Blob(data.cutoutDifference))

\* Mutant of AfterGetCutouts: an empty image is stored as None.
AfterGetCutoutsEmptyAsNone(a, cutouts) ==
    [a EXCEPT !.cutoutScience = Some(cutouts.cutoutScience),
              !.cutoutTemplate = IF cutouts.cutoutTemplate = "" THEN None
                                 ELSE Some(cutouts.cutoutTemplate),
              !.cutoutDifference = Some(cutouts.cutoutDifference)]

\* Mutant of AfterGetCutouts: candid is taken from the answer as well.
AfterGetCutoutsWithCandid(a, cutouts) ==
    [a EXCEPT !.candid = cutouts.candid,
              !.cutoutScience = Some(cutouts.cutoutScience),
              !.cutoutTemplate = Some(cutouts.cutoutTemplate),
              !.cutoutDifference = Some(cutouts.cutoutDifference)]

\* The three assignments of get_cutouts after the fetch.
AfterGetCutouts(a, cutouts) ==
    [a EXCEPT !.cutoutScience = Some(cutouts.cutoutScience),
              !.cutoutTemplate = Some(cutouts.cutoutTemplate),
              !.cutoutDifference = Some(cutouts.cutoutDifference)]

\* The assignment of get_cross_matches after the fetch.
AfterGetCrossMatches(a, xm) == [a EXCEPT !.cross_matches = Some(xm)]

(***************************************************************************)
(* SpecLazy: two alerts and any sequence of get_photometry, get_cutouts,   *)
(* get_cross_matches calls on one of them and add_cross_matches calls on   *)
(* the list of both.  Every fetch may succeed or raise.                    *)
(***************************************************************************)
LazyRecord(survey, jd) ==
    Val(from_alert_photometry(
          [jd |-> jd, psfFlux |-> Some(5), psfFluxErr |-> Some(1),
           band |-> "g", ra |-> 10, dec |-> 20], Zp(survey)).value)

\* The photometry lists an alert starts with: all None, or unsorted
\* prv_candidates with an empty fp_hists.
LazyLists(survey) ==
    {NoServer,
     [prv_candidates |-> Some(<<LazyRecord(survey, 2), LazyRecord(survey, 1)>>),
      fp_hists |-> Some(<<>>), prv_nondetections |-> None]}

\* The object the service stores for the photometry backfill.
LazyStored(survey) ==
    [prv_candidates |-> Some(<<LazyRecord(survey, 1)>>),
     fp_hists |-> Some(<<LazyRecord(survey, 1)>>),
     prv_nondetections |->
        IF survey = "ZTF" THEN Some(<<>>) ELSE None]

LazyCutouts ==
    {[cutoutScience |-> None, cutoutTemplate |-> None,
      cutoutDifference |-> None],
     [cutoutScience |-> Some("png"), cutoutTemplate |-> None,
      cutoutDifference |-> Some("png")]}

\* The answers of the service to a cutout request: science and difference
\* images are sent, the template image is missing, null, empty or sent.
CutoutAnswers ==
    [candid : Candids, cutoutScience : {Some("bmV3")},
     cutoutTemplate : {None, Some(""), Some("cG5n")},
     cutoutDifference : {Some("bmV3")}]

LazyAlerts(i) ==
    {FullAlert(Alert(s, IF i = 1 THEN "o1" ELSE "o2", l.prv_candidates,
                     l.fp_hists, l.prv_nondetections, x),
               i, "candidate", "properties", c) :
        s \in Surveys, l \in UNION {LazyLists(t) : t \in Surveys},
        x \in {None, Some("xA")}, c \in LazyCutouts}

InitLazy ==
    /\ \E a \in LazyAlerts(1), b \in LazyAlerts(2) :
          /\ a.prv_candidates \in {l.prv_candidates : l \in LazyLists(a.survey)}
          /\ b.prv_candidates \in {l.prv_candidates : l \in LazyLists(b.survey)}
          /\ alerts = <<a, b>>
    /\ lazyOp = NoLazyOp
    /\ ReconIdle /\ PhotIdle /\ XmIdle
    /\ NumIdle /\ ApiIdle /\ ConeIdle /\ ExtraIdle

\* Mutant of AfterFetchRaised: get_cutouts stores an empty science cutout
\* before the exception leaves it.
AfterFetchRaisedPartial(a, op) ==
    IF op = "get_cutouts" THEN [a EXCEPT !.cutoutScience = Some("")] ELSE a

\* The alert when the fetch of an accessor raises: the fetch is the first
\* statement behind the guard and no assignment precedes it.
AfterFetchRaised(a, op) == a

\* The call that ended: the accessor, the alert, how it ended and whether it
\* issued its fetch.
LazyDone(op, i, status, fetched) ==
    /\ lazyOp' = [op |-> op, i |-> i, status |-> status, fetched |-> fetched]
    /\ UNCHANGED <<reconVars, photVars, xmVars, numVars, apiVars, coneVars, extraVars>>

\* alert.get_photometry(deduplicated) on the i-th alert.
LazyGetPhotometry(i) ==
    \E deduplicated \in BOOLEAN, transportOk \in BOOLEAN :
      LET a == alerts[i]
      IN  IF NeedsBackfill(a)
          THEN LET resp == api_get_photometry(a.survey, LazyStored(a.survey),
                                              transportOk)
               IN  IF resp.status = "ok"
                   THEN /\ alerts' = [alerts EXCEPT ![i] =
                              AfterCombine(Backfilled(a, Val(resp.value)),
                                           deduplicated)]
                        /\ LazyDone("get_photometry", i, "returned", TRUE)
                   ELSE /\ alerts' = [alerts EXCEPT ![i] =
                              AfterFetchRaised(a, "get_photometry")]
                        /\ LazyDone("get_photometry", i, "raised", TRUE)
          ELSE /\ alerts' = [alerts EXCEPT ![i] =
                                AfterCombine(a, deduplicated)]
               /\ LazyDone("get_photometry", i, "returned", FALSE)

\* alert.get_cutouts() on the i-th alert.
LazyGetCutouts(i) ==
    LET a == alerts[i]
    IN  IF HasCutouts(a)
        THEN /\ alerts' = alerts
             /\ LazyDone("get_cutouts", i, "returned", FALSE)
        ELSE \/ /\ alerts' = [alerts EXCEPT ![i] =
                                 AfterFetchRaised(a, "get_cutouts")]
                /\ LazyDone("get_cutouts", i, "raised", TRUE)
             \/ \E data \in CutoutAnswers :
                  /\ alerts' = [alerts EXCEPT ![i] =
                        AfterGetCutouts(a, api_get_cutouts(data))]
                  /\ LazyDone("get_cutouts", i, "returned", TRUE)

\* alert.get_cross_matches() on the i-th alert.
LazyGetCrossMatches(i) ==
    LET a == alerts[i]
    IN  IF ~IsNone(a.cross_matches)
        THEN /\ alerts' = alerts
             /\ LazyDone("get_cross_matches", i, "returned", FALSE)
        ELSE \/ /\ alerts' = [alerts EXCEPT ![i] =
                                 AfterFetchRaised(a, "get_cross_matches")]
                /\ LazyDone("get_cross_matches", i, "raised", TRUE)
             \/ \E xm \in XmValues :
                  /\ alerts' = [alerts EXCEPT ![i] =
                                   AfterGetCrossMatches(a, xm)]
                  /\ LazyDone("get_cross_matches", i, "returned", TRUE)

\* add_cross_matches(alerts) on the list of both alerts.
LazyAddCrossMatches ==
    \E z \in get_cross_matches_bulk(UnsetIds(alerts, "ZTF")) :
      \E l \in IF z.status = "ok"
               THEN get_cross_matches_bulk(UnsetIds(alerts, "LSST"))
               ELSE {NotCalled} :
         /\ alerts' = AfterAddCrossMatches(alerts, z, l)
         /\ LazyDone("add_cross_matches", 0,
                     IF z.status = "ok" /\ l.status = "ok"
                     THEN "returned" ELSE "raised", TRUE)

NextLazy ==
    \/ \E i \in 1..2 : LazyGetPhotometry(i)
    \/ \E i \in 1..2 : LazyGetCutouts(i)
    \/ \E i \in 1..2 : LazyGetCrossMatches(i)
    \/ LazyAddCrossMatches

SpecLazy == InitLazy /\ [][NextLazy]_vars

PhotometryFields == {"prv_candidates", "fp_hists", "prv_nondetections"}
CutoutFields     == {"cutoutScience", "cutoutTemplate", "cutoutDifference"}

\* The fields an accessor may write, by its name.
Sanctioned(op) ==
    IF op = "get_photometry" THEN PhotometryFields
    ELSE IF op = "get_cutouts" THEN CutoutFields
    ELSE {"cross_matches"}

(***************************************************************************)
(* C12: in any sequence of get_photometry, get_cutouts, get_cross_matches  *)
(* and add_cross_matches calls, a call changes an alert only in the fields *)
(* of its own lazy path (the photometry lists, the three cutouts,          *)
(* cross_matches), changes no alert it was not called on or with, and      *)
(* candid, objectId, candidate and properties never change.                *)
(***************************************************************************)
C12_OnlySanctionedWrites ==
    [][\A k \in 1..Len(alerts) :
          LET a == alerts[k]
              b == alerts'[k]
          IN  /\ b.candid = a.candid /\ b.objectId = a.objectId
              /\ b.candidate = a.candidate /\ b.properties = a.properties
              /\ \A f \in DOMAIN a \ Sanctioned(lazyOp'.op) : b[f] = a[f]
              /\ (lazyOp'.i \notin {0, k}) => b = a]_vars

\* All four accessors have written to the first alert: its lists are the
\* stored ones, its template cutout is the b"" of an answer, and
\* add_cross_matches has just set its cross_matches.
C12_Witness ==
    /\ lazyOp = [op |-> "add_cross_matches", i |-> 0, status |-> "returned",
                 fetched |-> TRUE]
    /\ alerts[1].prv_candidates = LazyStored(alerts[1].survey).prv_candidates
    /\ alerts[1].cutoutTemplate = Some("")
    /\ alerts[1].cross_matches = Some("xB")
    /\ alerts[2].cross_matches = Some("xB")
    /\ alerts[2].cutoutTemplate = Some("png")
    /\ alerts[2].cutoutScience = Some("new")

LazyAccessors == {"get_photometry", "get_cutouts", "get_cross_matches"}

\* The guard of an accessor asks for the fetch on alert a.
FetchNeeded(op, a) ==
    IF op = "get_photometry"
    THEN /\ a.prv_candidates = None /\ a.fp_hists = None
         /\ a.survey = "ZTF" => a.prv_nondetections = None
    ELSE IF op = "get_cutouts"
    THEN None \in {a.cutoutScience, a.cutoutTemplate, a.cutoutDifference}
    ELSE a.cross_matches = None

(***************************************************************************)
(* C25: when the fetch inside get_photometry, get_cutouts or               *)
(* get_cross_matches raises, the call raises, no field of any alert has    *)
(* changed, the guard of the accessor still asks for the fetch, and a      *)
(* call of the same accessor on the same alert that follows fetches again. *)
(***************************************************************************)
C25_FailedFetchLeavesAlertRetries ==
    [][/\ (lazyOp'.op \in LazyAccessors /\ lazyOp'.status = "raised")
            => /\ lazyOp'.fetched
               /\ alerts' = alerts
               /\ FetchNeeded(lazyOp'.op, alerts'[lazyOp'.i])
       /\ (/\ lazyOp.op \in LazyAccessors /\ lazyOp.status = "raised"
           /\ lazyOp'.op = lazyOp.op /\ lazyOp'.i = lazyOp.i)
            => lazyOp'.fetched]_vars

\* get_cutouts has raised on an alert that holds two of its three cutouts:
\* the two are still there and the third is still None.
C25_Witness ==
    /\ lazyOp = [op |-> "get_cutouts", i |-> 1, status |-> "raised",
                 fetched |-> TRUE]
    /\ alerts[1].cutoutScience = Some("png")
    /\ alerts[1].cutoutTemplate = None
    /\ alerts[1].cutoutDifference = Some("png")

(***************************************************************************)
(* C27: get_cutouts is a fetch-once cache.  With all three cutouts not     *)
(* None it returns without a fetch and leaves the alert as it is; with at  *)
(* least one None it fetches, and a fetch that returns overwrites all      *)
(* three with bytes of the answer, b"" for an image the answer lacks; a    *)
(* cutout that is not None never becomes None again, so after one fetch    *)
(* that returned no later get_cutouts on that alert fetches.               *)
(***************************************************************************)
C27_CutoutsFetchedOnce ==
    [][\A k \in 1..Len(alerts) :
          LET a == alerts[k]
              b == alerts'[k]
              cached == /\ a.cutoutScience /= None
                        /\ a.cutoutTemplate /= None
                        /\ a.cutoutDifference /= None
              called == lazyOp'.op = "get_cutouts" /\ lazyOp'.i = k
          IN  /\ (called /\ cached)
                    => /\ ~lazyOp'.fetched
                       /\ lazyOp'.status = "returned"
                       /\ b = a
              /\ (called /\ ~cached) => lazyOp'.fetched
              /\ (called /\ ~cached /\ lazyOp'.status = "returned")
                    => /\ b.cutoutScience = Some("new")
                       /\ b.cutoutTemplate \in {Some(""), Some("png")}
                       /\ b.cutoutDifference = Some("new")
              /\ \A f \in CutoutFields : a[f] /= None => b[f] /= None]_vars

\* get_cutouts has just returned from the cache of an alert that a fetch
\* filled earlier: science and difference hold the bytes of the answer,
\* the template, which the answer lacked, is b"".
C27_Witness ==
    /\ lazyOp = [op |-> "get_cutouts", i |-> 1, status |-> "returned",
                 fetched |-> FALSE]
    /\ alerts[1].cutoutScience = Some("new")
    /\ alerts[1].cutoutTemplate = Some("")
    /\ alerts[1].cutoutDifference = Some("new")

(***************************************************************************)
(* C8: after add_cross_matches returns, every alert whose cross_matches    *)
(* was set before the call still has exactly the same cross_matches.       *)
(***************************************************************************)
C8_SetCrossMatchesKept ==
    xmStatus = "returned" =>
        \A i \in 1..Len(alerts) :
            ~IsNone(xmBefore[i].cross_matches)
                => alerts[i].cross_matches = xmBefore[i].cross_matches

(***************************************************************************)
(* C9: after add_cross_matches on ZTF and LSST alerts that all start with  *)
(* cross_matches unset, an alert has cross_matches set exactly when the    *)
(* answer for its own survey contains its objectId; the others stay unset, *)
(* and unmatched objectIds raise no error (the call raises only when a     *)
(* fetch does).                                                            *)
(***************************************************************************)
C9_SetIffInOwnSurveyAnswer ==
    (xmStatus /= "idle"
       /\ \A i \in 1..Len(xmBefore) : IsNone(xmBefore[i].cross_matches)) =>
        /\ xmStatus = "raised" => \E s \in Surveys : xmResp[s].status = "raised"
        /\ xmStatus = "returned" =>
              \A i \in 1..Len(alerts) :
                  ~IsNone(alerts[i].cross_matches)
                      <=> ~IsNone(xmResp[alerts[i].survey].map[alerts[i].objectId])

\* Two ZTF alerts and one LSST alert, all unset, the LSST alert carrying the
\* objectId of the first ZTF alert; the answers hold a match for that ZTF
\* object only: that alert is set, the other two are not.
C9_Witness ==
    /\ xmStatus = "returned"
    /\ Len(alerts) = 3
    /\ \A i \in 1..3 : IsNone(xmBefore[i].cross_matches)
    /\ alerts[1].survey = "ZTF" /\ alerts[1].objectId = "o1"
    /\ alerts[2].survey = "ZTF" /\ alerts[2].objectId = "o2"
    /\ alerts[3].survey = "LSST" /\ alerts[3].objectId = "o1"
    /\ xmResp["ZTF"].map["o1"] = Some("xB")
    /\ alerts[1].cross_matches = Some("xB")
    /\ IsNone(alerts[2].cross_matches)
    /\ IsNone(alerts[3].cross_matches)

(***************************************************************************)
(* C10, as claimed: a failure of the bulk fetch for one survey partition   *)
(* does not prevent the alerts of the other partition from being assigned  *)
(* their fetched cross-matches.                                            *)
(***************************************************************************)
C10_OtherPartitionAssigned ==
    \A s \in Surveys :
        (xmStatus = "raised" /\ xmResp[s].status = "ok") =>
            \A i \in 1..Len(alerts) :
                (alerts[i].survey = s /\ IsNone(xmBefore[i].cross_matches))
                    => alerts[i].cross_matches = xmResp[s].map[alerts[i].objectId]

(***************************************************************************)
(* C10, amended: a failure of the bulk fetch for one survey partition      *)
(* aborts the call: the exception propagates and the alerts of the other   *)
(* partition keep the cross_matches they had before the call, whatever     *)
(* was fetched for them.                                                   *)
(***************************************************************************)
C10_OtherPartitionNotAssigned ==
    \A s \in Surveys :
        xmResp[s].status = "raised" =>
            /\ xmStatus = "raised"
            /\ \A i \in 1..Len(alerts) :
                  alerts[i].survey /= s
                      => alerts[i].cross_matches = xmBefore[i].cross_matches

\* The LSST fetch failed after the ZTF fetch had brought a match for an
\* unset ZTF alert, which stays unset.
C10_Witness ==
    /\ xmStatus = "raised"
    /\ xmResp["LSST"].status = "raised"
    /\ xmResp["ZTF"].status = "ok"
    /\ \E i \in 1..Len(alerts) :
          /\ alerts[i].survey = "ZTF"
          /\ IsNone(xmBefore[i].cross_matches)
          /\ ~IsNone(xmResp["ZTF"].map[alerts[i].objectId])
          /\ IsNone(alerts[i].cross_matches)
    /\ \E i \in 1..Len(alerts) : alerts[i].survey = "LSST"

(***************************************************************************)
(* C26: add_cross_matches fails atomically.  The ZTF bulk fetch comes      *)
(* first, the LSST bulk fetch second, and both come before any             *)
(* assignment: when either raises, the call raises and every alert of the  *)
(* list has the cross_matches it had before the call.                      *)
(***************************************************************************)
C26_FailsAtomically ==
    /\ xmStatus = "raised" <=> \E s \in Surveys : xmResp[s].status = "raised"
    /\ xmStatus = "raised" => alerts = xmBefore
    /\ xmResp["ZTF"].status = "raised" => xmResp["LSST"].status = "notcalled"
    /\ xmResp["LSST"].status /= "notcalled" => xmResp["ZTF"].status = "ok"

\* The ZTF fetch raised on a list holding an unset alert of each survey: the
\* LSST fetch was never issued and both alerts are still unset.
C26_Witness ==
    /\ xmStatus = "raised"
    /\ xmResp["ZTF"].status = "raised"
    /\ xmResp["LSST"].status = "notcalled"
    /\ \E i, j \in 1..Len(alerts) :
          /\ alerts[i].survey = "ZTF" /\ alerts[j].survey = "LSST"
          /\ IsNone(alerts[i].cross_matches) /\ IsNone(alerts[j].cross_matches)
    /\ alerts = xmBefore


(***************************************************************************)
(* SpecAvro: avro_utils.deserialize_alert and the validation of the        *)
(* decoded record by the raw schema model.                                 *)
(*                                                                         *)
(* A payload is described by what the decoder finds in it: a container    *)
(* with a record, a container without any record, bytes that are not a    *)
(* container, or a container cut short.  The record of a container        *)
(* carries each required field of EnrichedZtfAlert as present and         *)
(* well-formed ("ok"), present with a wrong type ("malformed") or         *)
(* "absent".                                                               *)
(***************************************************************************)
PayloadKinds == {"container", "empty_container", "garbage", "truncated"}
FieldStates  == {"ok", "malformed", "absent"}

AvroPayloads == [kind : PayloadKinds, candid : FieldStates, objectId : FieldStates, candidate : FieldStates]

AvroCall(payload, status, exc) == [payload |-> payload, status |-> status, exc |-> exc]

\* The exceptions the decoder raises on bytes it cannot read.  The decoder
\* is a library: which of its exceptions a payload meets is its choice.
DecoderErrors == {"ValueError", "StopIteration", "EOFError"}

\* deserialize_alert: reader = fastavro.reader(...); result = next(reader);
\* return result.  There is no try/except: what the decoder raises leaves
\* the function as it is.
deserialize_alert(payload) == IF payload.kind = "container" THEN {AvroCall(payload, "decoded", "")} ELSE {AvroCall(payload, "raised", e) : e \in DecoderErrors}

\* EnrichedZtfAlert declares candid, objectId and candidate without a
\* default: model_validate raises ValidationError unless all are well-formed.
model_validate(payload) == IF payload.candid = "ok" /\ payload.objectId = "ok" /\ payload.candidate = "ok" THEN AvroCall(payload, "validated", "") ELSE AvroCall(payload, "raised", "ValidationError")

AvroFrame == UNCHANGED <<reconVars, photVars, xmVars, lazyVars, numVars, apiVars, coneVars, cfgVars, raceVars, alerts>>

InitAvro ==
    /\ \E p \in AvroPayloads : avro = AvroCall(p, "pending", "")
    /\ alerts = <<>>
    /\ ReconIdle /\ PhotIdle /\ XmIdle /\ LazyIdle /\ NumIdle /\ ApiIdle /\ ConeIdle
    /\ CfgIdle /\ RaceIdle

Deserialize ==
    /\ avro.status = "pending"
    /\ avro' \in deserialize_alert(avro.payload)
    /\ AvroFrame

Validate ==
    /\ avro.status = "decoded"
    /\ avro' = model_validate(avro.payload)
    /\ AvroFrame

NextAvro == Deserialize \/ Validate

SpecAvro == InitAvro /\ [][NextAvro]_vars

\* C21: a payload that cannot be decoded, or a decoded record whose
\* required fields are absent or malformed, ends in a DeserializationError,
\* and an alert is handed out only when every required field is well-formed.
C21_DeserializationErrorReported == /\ (avro.status = "raised" => avro.exc = "DeserializationError") /\ (avro.status = "validated" => avro.payload.kind = "container" /\ avro.payload.candid = "ok" /\ avro.payload.objectId = "ok" /\ avro.payload.candidate = "ok")

(***************************************************************************)
(* SpecConfig: BabamulConfig.from_env, called with a username, a password  *)
(* and a server that may each be missing (None), empty or set, in an       *)
(* environment where BABAMUL_KAFKA_USERNAME and BABAMUL_KAFKA_PASSWORD     *)
(* may each be unset, empty or set.                                        *)
(***************************************************************************)
MAIN_KAFKA_SERVER == "kaboom.caltech.edu:9093"

OptStr(v) == {None, Some(""), Some(v)}

NoConfig == [username |-> "", password |-> "", server |-> ""]

CfgCall(u, p, s, eu, ep, status, exc, value) == [fn |-> "from_env", username |-> u, password |-> p, server |-> s, env_username |-> eu, env_password |-> ep, status |-> status, exc |-> exc, value |-> value]

\* The class of the exception from_env raises for a missing credential.
MissingCredentialError == "ValueError"

\* from_env: "final = arg or os.environ.get(...)" for each of the three,
\* "if not final_username: raise", "if not final_password: raise", then
\* return cls(...).  BABAMUL_SERVER is unset, so the default server applies.
from_env(c) == LET final_username == PyOr(c.username, c.env_username) final_password == PyOr(c.password, c.env_password) final_server == PyOr(c.server, Some(MAIN_KAFKA_SERVER)) IN IF ~Truthy(final_username) \/ ~Truthy(final_password) THEN [c EXCEPT !.status = "raised", !.exc = MissingCredentialError] ELSE [c EXCEPT !.status = "returned", !.value = [username |-> Val(final_username), password |-> Val(final_password), server |-> Val(final_server)]]

InitConfig ==
    /\ \E u \in OptStr("u"), p \in OptStr("p"), s \in {None, Some("s")}, eu \in OptStr("eu"), ep \in OptStr("ep") : cfg = CfgCall(u, p, s, eu, ep, "pending", "", NoConfig)
    /\ alerts = <<>>
    /\ ReconIdle /\ PhotIdle /\ XmIdle /\ LazyIdle /\ NumIdle /\ ApiIdle /\ ConeIdle
    /\ AvroIdle /\ RaceIdle

FromEnv ==
    /\ cfg.status = "pending"
    /\ cfg' = from_env(cfg)
    /\ UNCHANGED <<reconVars, photVars, xmVars, lazyVars, numVars, apiVars, coneVars, avroVars, raceVars, alerts>>

NextConfig == FromEnv

SpecConfig == InitConfig /\ [][NextConfig]_vars

\* A credential is missing when neither the argument nor the environment
\* variable gives a non-empty value for it.
CredentialsMissing == (~Truthy(cfg.username) /\ ~Truthy(cfg.env_username)) \/ (~Truthy(cfg.password) /\ ~Truthy(cfg.env_password))

\* C22: from_env with a missing username or password raises
\* ConfigurationError and returns no configuration object.
C22_MissingCredentialsConfigurationError == (cfg.status /= "pending" /\ CredentialsMissing) => (cfg.status = "raised" /\ cfg.exc = "ConfigurationError" /\ cfg.value = NoConfig)

(***************************************************************************)
(* SpecRace: two threads call get_photometry on the same alert, whose      *)
(* photometry lists are all None.  The method takes no lock, so a thread   *)
(* switch can fall between any two attribute accesses: each read of a      *)
(* list in the guard, the fetch, each of the assignments, and each         *)
(* "if self.x: photometry.extend(self.x)" is a step of its own.  (The       *)
(* test and the extend of one list read the same value: a list only ever   *)
(* goes from None to the list of the stored object.)  When the caller      *)
(* serializes the calls, the second starts after the first has ended.      *)
(***************************************************************************)
Threads == {1, 2}

Fields == <<"prv_candidates", "fp_hists", "prv_nondetections">>

\* The lists get_photometry handles: three for ZtfAlert, two for LsstAlert.
NFields(survey) == IF survey = "ZTF" THEN Len(Fields) ELSE Len(Fields) - 1

NoData == [prv_candidates |-> <<>>, fp_hists |-> <<>>, prv_nondetections |-> <<>>]

Thread(stage, k, data, photometry, deduplicated, value, exc) == [stage |-> stage, k |-> k, data |-> data, photometry |-> photometry, deduplicated |-> deduplicated, value |-> value, exc |-> exc]

\* Mutant of GuardTest: the guard takes every list for None.
GuardTestAlways(o) == TRUE

\* One operand of the guard: "self.x is None".
GuardTest(o) == IsNone(o)

\* The lists of a stored object: empty, or one record of jd 1 in band g.
RaceSeqs(pool) == {Some(<<>>)} \cup {Some(<<x>>) : x \in {y \in pool : y.jd = 1 /\ y.band = "g"}}

RaceServers(survey) == [prv_candidates : RaceSeqs(PrvPool(survey)), fp_hists : RaceSeqs(FpPool(survey)), prv_nondetections : IF survey = "ZTF" THEN RaceSeqs(NdPool(survey)) ELSE {None}]

InitRace ==
    /\ \E survey \in Surveys : /\ alerts = <<Alert(survey, "o1", None, None, None, None)>>
                               /\ server \in RaceServers(survey)
    /\ fetchCount = 0
    /\ rets = <<>>
    /\ thr = [t \in Threads |-> Thread("guard", 1, NoData, <<>>, FALSE, <<>>, "")]
    /\ serial \in BOOLEAN
    /\ ReconIdle /\ XmIdle /\ LazyIdle /\ NumIdle /\ ApiIdle /\ ConeIdle
    /\ AvroIdle /\ CfgIdle

RaceFrame == UNCHANGED <<server, rets, serial, reconVars, xmVars, lazyVars, numVars, apiVars, coneVars, avroVars, cfgVars>>

\* A serialized caller starts the second call when the first has ended.
MayRun(t) == (serial /\ t = 2) => thr[1].stage \in {"done", "raised"}

\* One operand of the guard, left to right; "and" stops at the first list
\* that is not None and the call goes on to combine the lists.
RaceGuard(t) ==
    /\ thr[t].stage = "guard"
    /\ MayRun(t)
    /\ LET k == thr[t].k
           a == alerts[1]
       IN  thr' = [thr EXCEPT ![t] =
                     IF ~GuardTest(a[Fields[k]]) THEN [@ EXCEPT !.stage = "extend", !.k = 1]
                     ELSE IF k < NFields(a.survey) THEN [@ EXCEPT !.k = k + 1]
                     ELSE [@ EXCEPT !.stage = "fetch", !.k = 0]]
    /\ UNCHANGED <<alerts, fetchCount>>
    /\ RaceFrame

\* photometry_data = get_photometry_from_api(survey, self.objectId)
RaceFetch(t) ==
    /\ thr[t].stage = "fetch"
    /\ \E transportOk \in BOOLEAN :
          LET resp == api_get_photometry(alerts[1].survey, server, transportOk)
          IN  thr' = [thr EXCEPT ![t] =
                        IF resp.status = "ok"
                        THEN [@ EXCEPT !.stage = "assign", !.k = 1, !.data = Val(resp.value)]
                        ELSE [@ EXCEPT !.stage = "raised", !.exc = resp.status]]
    /\ fetchCount' = fetchCount + 1
    /\ UNCHANGED alerts
    /\ RaceFrame

\* self.x = photometry_data.x, one list per step.
RaceAssign(t) ==
    /\ thr[t].stage = "assign"
    /\ LET k == thr[t].k
           a == alerts[1]
       IN  /\ alerts' = <<[a EXCEPT ![Fields[k]] = Some(thr[t].data[Fields[k]])]>>
           /\ thr' = [thr EXCEPT ![t] =
                        IF k < NFields(a.survey) THEN [@ EXCEPT !.k = k + 1]
                        ELSE [@ EXCEPT !.stage = "extend", !.k = 1]]
    /\ UNCHANGED fetchCount
    /\ RaceFrame

\* if self.x: photometry.extend(self.x), one list per step.
RaceExtend(t) ==
    /\ thr[t].stage = "extend"
    /\ LET k == thr[t].k
           a == alerts[1]
       IN  thr' = [thr EXCEPT ![t] =
                     [@ EXCEPT !.photometry = @ \o ListOf(a[Fields[k]]),
                               !.stage = IF k < NFields(a.survey) THEN "extend" ELSE "finish",
                               !.k = IF k < NFields(a.survey) THEN k + 1 ELSE 0]]
    /\ UNCHANGED <<alerts, fetchCount>>
    /\ RaceFrame

\* The sort, the scan for duplicates when deduplicated, and the return: they
\* act on the thread's own list.
RaceFinish(t) ==
    /\ thr[t].stage = "finish"
    /\ \E deduplicated \in BOOLEAN :
          LET photometry == SortByJd(thr[t].photometry)
          IN  thr' = [thr EXCEPT ![t] =
                        [@ EXCEPT !.stage = "done",
                                  !.deduplicated = deduplicated,
                                  !.value = IF deduplicated THEN Dedup(photometry) ELSE photometry]]
    /\ UNCHANGED <<alerts, fetchCount>>
    /\ RaceFrame

NextRace == \E t \in Threads : RaceGuard(t) \/ RaceFetch(t) \/ RaceAssign(t) \/ RaceExtend(t) \/ RaceFinish(t)

SpecRace == InitRace /\ [][NextRace]_vars

\* The light curve of the stored object, as a call that returned asked for it.
FullLightCurve(t) == Combine(Backfilled(alerts[1], Val(api_get_photometry(alerts[1].survey, server, TRUE).value)), thr[t].deduplicated)

(***************************************************************************)
(* C24: get_photometry is not synchronized.  When the two calls on the     *)
(* unpopulated alert are serialized and both return, the backfill is       *)
(* fetched once and each call returns the full light curve.  Without       *)
(* serialization there are interleavings in which the backfill is fetched  *)
(* twice, and interleavings in which one call skips the fetch and returns  *)
(* a light curve built from the lists the other has assigned so far.       *)
(***************************************************************************)
C24_SerializedOneFetchFullCurve ==
    (serial /\ \A t \in Threads : thr # <<>> /\ thr[t].stage = "done")
        => /\ fetchCount = 1
           /\ \A t \in Threads : thr[t].value = FullLightCurve(t)

\* Unsynchronized: one fetch, both calls returned, and the second returned
\* fewer records than the full light curve because it combined the lists
\* while the first was between its assignments.
C24_Witness ==
    /\ thr # <<>>
    /\ ~serial
    /\ \A t \in Threads : thr[t].stage = "done"
    /\ fetchCount = 1
    /\ thr[1].value = FullLightCurve(1)
    /\ Len(thr[2].value) > 0
    /\ Len(thr[2].value) < Len(FullLightCurve(2))
    /\ ~thr[2].deduplicated

\* Unsynchronized: both calls passed the guard before either assigned, and
\* the backfill was fetched twice.
C24_DoubleFetch ==
    /\ thr # <<>>
    /\ ~serial
    /\ \A t \in Threads : thr[t].stage = "done"
    /\ fetchCount = 2

====
